---- MODULE Spec2Model ----
(***************************************************************************)
(* A model of bazaar's search engine (src/src/bz-search-engine.c, the      *)
(* first of the two revisions the file holds: lines 1-851) and of the      *)
(* entry-group record it reads (src/src/bz-entry-group.c).                 *)
(*                                                                         *)
(* Strings are sequences of code points.  A double is a record             *)
(*   [nan, big, small]  standing for  big * G_MAXINT + small / Scale,      *)
(* which is exact for every value the model computes: field scores are     *)
(* sums of len^2/len quotients times 2.0, 1.0 or 1.5, and a linear boost   *)
(* maps such a value to another one.                                       *)
(*                                                                         *)
(* Specifications:                                                         *)
(*   Spec       the engine, its collaborators and bz_entry_group_add       *)
(*   SpecFault  Spec with sub task futures that may be rejected            *)
(*   SpecLive   Spec with the other handlers that lock a group, and        *)
(*              fairness                                                   *)
(*   SpecTable  biases_changed over bias sources of every shape            *)
(*   SpecScore  the scoring of one candidate over all short strings        *)
(***************************************************************************)
EXTENDS Integers, Sequences, FiniteSets, TLC

(***************************************************************************)
(* Bounds of the model.                                                    *)
(***************************************************************************)
\* the longest query + field pair the scoring specification enumerates
MaxPairLen == 5

\* code points: two letters, an upper-case form of one, and U+0020
Alphabet == {"a", "A", "b", " "}
NUL == "NUL"

RECURSIVE Factorial(_)
Factorial(n) == IF n <= 1 THEN 1 ELSE n * Factorial(n - 1)

\* every token is at most MaxPairLen code points long, so every quotient
\* len(q)^2 / len(f), times 1.5, is a whole number of 1/Scale
Scale == 2 * Factorial(MaxPairLen + 1)

(***************************************************************************)
(* Doubles.                                                                *)
(***************************************************************************)
Fin(big, small) == [nan |-> FALSE, big |-> big, small |-> small]
NaN == [nan |-> TRUE, big |-> 0, small |-> 0]
Zero == Fin(0, 0)
Whole(n) == Fin(0, n * Scale)

DAdd(x, y) == IF x.nan \/ y.nan THEN NaN ELSE Fin(x.big + y.big, x.small + y.small)
\* x * (num / den), den dividing Scale's factors
DMulRat(x, num, den) ==
    IF x.nan THEN NaN ELSE Fin((x.big * num) \div den, (x.small * num) \div den)
\* a > b on doubles: false when either is NaN
DGt(x, y) ==
    /\ ~x.nan
    /\ ~y.nan
    /\ \/ x.big > y.big
       \/ x.big = y.big /\ x.small > y.small
\* (double) (q * q) / (double) a
DQuot(qq, a) == IF a = 0 THEN NaN ELSE Fin(0, (qq * Scale) \div a)

(***************************************************************************)
(* Code points.                                                            *)
(***************************************************************************)
g_unichar_tolower(c) == IF c = "A" THEN "a" ELSE c
IsSpaceSeparator(c) == c = " "
\* *p for a pointer p into the NUL-terminated string s (p = Len(s)+1 is the NUL)
CharAt(s, p) == IF p >= 1 /\ p <= Len(s) THEN s[p] ELSE NUL

(***************************************************************************)
(* utf8_skip_to_next_of_class (s, G_UNICODE_SPACE_SEPARATOR, &len):        *)
(* from pointer s0, skip leading separators, move *s to the first other    *)
(* code point, count the code points up to the next separator and return   *)
(* a pointer to it; the end of the string when there is none.  When only   *)
(* separators (or nothing) follow s0, *s stays s0 and the count is 0.      *)
(***************************************************************************)
RECURSIVE SkipScan(_, _, _, _, _)
SkipScan(s, p, start, skipped, n) ==
    IF p > Len(s)
    THEN [start |-> start, end |-> Len(s) + 1, len |-> n]
    ELSE IF IsSpaceSeparator(s[p])
         THEN IF skipped
              THEN [start |-> start, end |-> p, len |-> n]
              ELSE SkipScan(s, p + 1, start, skipped, n)
         ELSE SkipScan(s, p + 1, IF skipped THEN start ELSE p, TRUE, n + 1)

utf8_skip_to_next_of_class(s, s0) == SkipScan(s, s0, s0, FALSE, 0)

(***************************************************************************)
(* UTF8_FOREACH_TOKEN_FORWARDS: the tokens the loop body runs for, in      *)
(* order.  The loop runs while *start != 0, so a run of separators that    *)
(* ends the string is handed to the body as a token of length 0.           *)
(***************************************************************************)
RECURSIVE TokensFrom(_, _)
TokensFrom(s, t) ==
    IF t.start > Len(s)
    THEN << >>
    ELSE <<t>> \o TokensFrom(s, utf8_skip_to_next_of_class(s, t.end))

UTF8_FOREACH_TOKEN_FORWARDS(s) == TokensFrom(s, utf8_skip_to_next_of_class(s, 1))

(***************************************************************************)
(* The body of test_strings' innermost loops (lines 747-778).              *)
(***************************************************************************)
\* lines 759-772: the query token's code points against the field from `chk`
RECURSIVE QueryCharsMatch(_, _, _, _, _)
QueryCharsMatch(query, qp, qend, against, chk) ==
    IF ~(qp <= Len(query) /\ qp < qend)
    THEN TRUE
    ELSE IF g_unichar_tolower(CharAt(against, chk)) # g_unichar_tolower(query[qp])
         THEN FALSE
         ELSE QueryCharsMatch(query, qp + 1, qend, against, chk + 1)

\* a scan that would go on when the query token no longer fits
NeverTooLong(qlen, alen, consumed) == FALSE

\* line 752, on gsize: against_tok_utf8_len - consumed wraps when consumed is larger
TooLong(qlen, alen, consumed) ==
    IF consumed > alen THEN FALSE ELSE qlen > alen - consumed

\* lines 747-778: the value of `match` when the loop over the field token ends
RECURSIVE AgainstScan(_, _, _, _, _, _)
AgainstScan(query, qt, against, at, ap, consumed) ==
    IF ~(ap <= Len(against) /\ ap < at.end)
    THEN FALSE
    ELSE IF TooLong(qt.len, at.len, consumed)
         THEN FALSE
         ELSE IF QueryCharsMatch(query, qt.start, qt.end, against, ap)
              THEN TRUE
              ELSE AgainstScan(query, qt, against, at, ap + 1, consumed + 1)

TokenMatch(query, qt, against, at) == AgainstScan(query, qt, against, at, at.start, 0)

\* lines 759-772: the last pointer into the field whose code point line 764
\* compared with a code point of the query token, chk - 1 when it compared none
RECURSIVE LastCompared(_, _, _, _, _)
LastCompared(query, qp, qend, against, chk) ==
    IF ~(qp <= Len(query) /\ qp < qend)
    THEN chk - 1
    ELSE IF g_unichar_tolower(CharAt(against, chk)) # g_unichar_tolower(query[qp])
         THEN chk
         ELSE LastCompared(query, qp + 1, qend, against, chk + 1)

\* lines 747-778: the farthest such pointer of the whole scan of one field token
RECURSIVE FarthestCompared(_, _, _, _, _, _, _)
FarthestCompared(query, qt, against, at, ap, consumed, far) ==
    IF ~(ap <= Len(against) /\ ap < at.end)
    THEN far
    ELSE IF TooLong(qt.len, at.len, consumed)
         THEN far
         ELSE LET last == LastCompared(query, qt.start, qt.end, against, ap)
                  seen_far == IF last > far THEN last ELSE far
              IN  IF QueryCharsMatch(query, qt.start, qt.end, against, ap)
                  THEN seen_far
                  ELSE FarthestCompared(query, qt, against, at, ap + 1, consumed + 1,
                                        seen_far)

\* a test that would also skip a token of exactly accept_min_size code points
SkippedAtOrBelow(at, accept_min_size) ==
    accept_min_size > 0 /\ at.len <= accept_min_size

\* lines 743-745
SkippedAsShort(at, accept_min_size) == accept_min_size > 0 /\ at.len < accept_min_size

(***************************************************************************)
(* test_strings (query, against, accept_min_size), lines 725-795.          *)
(***************************************************************************)
\* lines 738-785: one query token over every field token;
\* acc = [score, has_match]
RECURSIVE AgainstTokens(_, _, _, _, _, _, _)
AgainstTokens(query, qt, against, ats, k, accept_min_size, acc) ==
    IF k > Len(ats)
    THEN acc
    ELSE IF SkippedAsShort(ats[k], accept_min_size)
         THEN AgainstTokens(query, qt, against, ats, k + 1, accept_min_size, acc)
         ELSE IF TokenMatch(query, qt, against, ats[k])
              THEN AgainstTokens(query, qt, against, ats, k + 1, accept_min_size,
                       [score |-> DAdd(acc.score, DQuot(qt.len * qt.len, ats[k].len)),
                        has_match |-> TRUE])
              ELSE AgainstTokens(query, qt, against, ats, k + 1, accept_min_size, acc)

\* a loop that would end without resetting the score
KeepScore(score) == score

\* lines 787-791: a query token without a match resets the score and ends the loop
NoMatchScore(score) == Zero

RECURSIVE QueryTokens(_, _, _, _, _, _, _)
QueryTokens(query, qts, j, against, ats, accept_min_size, score) ==
    IF j > Len(qts)
    THEN score
    ELSE LET acc == AgainstTokens(query, qts[j], against, ats, 1, accept_min_size,
                                  [score |-> score, has_match |-> FALSE])
         IN  IF ~acc.has_match
             THEN NoMatchScore(acc.score)
             ELSE QueryTokens(query, qts, j + 1, against, ats, accept_min_size, acc.score)

test_strings(query, against, accept_min_size) ==
    QueryTokens(query, UTF8_FOREACH_TOKEN_FORWARDS(query), 1,
                against, UTF8_FOREACH_TOKEN_FORWARDS(against), accept_min_size, Zero)


(***************************************************************************)
(* Strings and optional values.                                            *)
(***************************************************************************)
\* a NULL char* (no string is made of this code point), and the NULL of the
\* other pointer types
NULL == <<"NULL">>
NULL_LIST == <<NULL>>
NULL_TABLE == {NULL}
NULL_FN == << >>
\* a NULL char **: no term list holds this term
NULL_STRV == << <<"NULL_STRV">> >>

\* strcasecmp (a, b) == 0
RECURSIVE strcasecmp_eq(_, _)
strcasecmp_eq(a, b) ==
    IF Len(a) # Len(b) THEN FALSE
    ELSE IF Len(a) = 0 THEN TRUE
    ELSE /\ g_unichar_tolower(Head(a)) = g_unichar_tolower(Head(b))
         /\ strcasecmp_eq(Tail(a), Tail(b))

\* g_strjoinv (" ", terms)
RECURSIVE g_strjoinv(_)
g_strjoinv(terms) ==
    IF Len(terms) = 0 THEN << >>
    ELSE IF Len(terms) = 1 THEN terms[1]
    ELSE terms[1] \o <<" ">> \o g_strjoinv(Tail(terms))

(***************************************************************************)
(* More doubles: the boost transforms of lines 679-689.                    *)
(***************************************************************************)
\* (double) G_MAXINT, line 644
G_MAXINT_SCORE == Fin(1, 0)
\* sub_data->threshold = 1.0, line 547
Threshold == Whole(1)

\* a boost that would add the intercept and forget the slope
InterceptOnly(slope, y_intercept, score) == DAdd(score, Whole(y_intercept))

\* slope * score + y_intercept, for whole slopes and intercepts
LinearBoost(slope, y_intercept, score) ==
    IF score.nan THEN NaN
    ELSE Fin(slope * score.big, slope * score.small + y_intercept * Scale)

\* pow (factor, score) + y_intercept for the factors 0 and 1:
\* pow (1, y) is 1 for every y, NaN included; pow (0, y) is 0 for y > 0 and
\* 1 for y = 0 (the model's scores are never negative: no slope or intercept
\* of the bias universe is)
ExponentialBoost(factor, y_intercept, score) ==
    LET p == CASE factor = 1 -> Whole(1)
               [] factor = 0 /\ score.nan -> NaN
               [] factor = 0 /\ score = Zero -> Whole(1)
               [] factor = 0 /\ DGt(score, Zero) -> Zero
    IN  DAdd(p, Whole(y_intercept))

(***************************************************************************)
(* The body of query_sub_task_fiber's loop for one candidate, lines        *)
(* 640-699, on the field values read under the candidate's lock.           *)
(***************************************************************************)
\* lines 642-643
IsExactMatch(query_utf8, id, title) ==
    \/ id # NULL /\ query_utf8 = id
    \/ title # NULL /\ strcasecmp_eq(query_utf8, title)

\* EVALUATE_STRING, lines 655-658
EVALUATE_STRING(query_utf8, s, accept_min_size) ==
    IF s # NULL THEN test_strings(query_utf8, s, accept_min_size) ELSE Zero

\* a sum that would forget the weights
UnweightedFields(query_utf8, f) ==
    DAdd(DAdd(DAdd(EVALUATE_STRING(query_utf8, f.title, 2),
                   EVALUATE_STRING(query_utf8, f.developer, 2)),
              EVALUATE_STRING(query_utf8, f.description, 3)),
         EVALUATE_STRING(query_utf8, f.search_tokens, 0 - 1))

\* lines 660-663
WeightedFields(query_utf8, f) ==
    DAdd(DAdd(DAdd(DMulRat(EVALUATE_STRING(query_utf8, f.title, 2), 2, 1),
                   DMulRat(EVALUATE_STRING(query_utf8, f.developer, 2), 1, 1)),
              DMulRat(EVALUATE_STRING(query_utf8, f.description, 3), 1, 1)),
         DMulRat(EVALUATE_STRING(query_utf8, f.search_tokens, 0 - 1), 3, 2))

\* lines 642-666
BaseScore(query_utf8, f) ==
    IF IsExactMatch(query_utf8, f.id, f.title)
    THEN G_MAXINT_SCORE
    ELSE WeightedFields(query_utf8, f)

\* lines 672-689: one active bias
ApplyBias(bias, id, score) ==
    IF bias.boost = NULL_TABLE THEN score
    ELSE IF id \notin bias.boost THEN score
    ELSE CASE bias.boost_kind = "LINEAR" ->
                  LinearBoost(bias.slope, bias.y_intercept, score)
           [] bias.boost_kind = "EXPONENTIAL" ->
                  ExponentialBoost(bias.slope, bias.y_intercept, score)
           [] OTHER -> score

\* a loop that would start from the last active bias
RECURSIVE ApplyBiasesBackwards(_, _, _, _)
ApplyBiasesBackwards(active_biases, j, id, score) ==
    IF j > Len(active_biases) THEN score
    ELSE ApplyBias(active_biases[j], id,
                   ApplyBiasesBackwards(active_biases, j + 1, id, score))

\* lines 668-690: every active bias, in the order of active_biases
RECURSIVE ApplyBiases(_, _, _, _)
ApplyBiases(active_biases, j, id, score) ==
    IF j > Len(active_biases) THEN score
    ELSE ApplyBiases(active_biases, j + 1, id, ApplyBias(active_biases[j], id, score))

FinalScore(query_utf8, f, active_biases) ==
    ApplyBiases(active_biases, 1, f.id, BaseScore(query_utf8, f))

\* a test that would let a score on the threshold through
ReachesThreshold(score) == ~score.nan /\ ~DGt(Threshold, score)

\* line 692
ClearsThreshold(score) == DGt(score, Threshold)


(***************************************************************************)
(* Regular expressions.  A pattern is a literal, anchored at both ends     *)
(* ("^ab$") or not ("ab"), or a string GRegex cannot compile.              *)
(***************************************************************************)
Lit(text) == [kind |-> "lit", text |-> text, anchored |-> FALSE]
Whole_(text) == [kind |-> "lit", text |-> text, anchored |-> TRUE]
BadPattern == [kind |-> "bad", text |-> << >>, anchored |-> FALSE]
NULL_REGEX == [kind |-> "null", text |-> << >>, anchored |-> FALSE]

\* g_regex_new (regex_string, ...), lines 426-430: NULL when it does not compile
g_regex_new(regex_string) ==
    IF regex_string.kind = "bad" THEN NULL_REGEX ELSE regex_string

OccursAt(text, s, p) ==
    /\ p + Len(text) - 1 <= Len(s)
    /\ \A k \in 1..Len(text) : s[p + k - 1] = text[k]

\* g_regex_match (regex, s, G_REGEX_MATCH_DEFAULT, NULL)
g_regex_match(regex, s) ==
    IF regex.anchored THEN s = regex.text
    ELSE \E p \in 1..(Len(s) + 1) : OccursAt(regex.text, s, p)

\* g_regex_replace (regex, s, -1, 0, replacement, ...): every match, left to right
RECURSIVE ReplaceFrom(_, _, _, _)
ReplaceFrom(text, s, p, replacement) ==
    IF p > Len(s) THEN << >>
    ELSE IF OccursAt(text, s, p)
         THEN replacement \o ReplaceFrom(text, s, p + Len(text), replacement)
         ELSE <<s[p]>> \o ReplaceFrom(text, s, p + 1, replacement)

g_regex_replace(regex, s, replacement) ==
    IF regex.anchored
    THEN (IF s = regex.text THEN replacement ELSE s)
    ELSE ReplaceFrom(regex.text, s, 1, replacement)

(***************************************************************************)
(* The universe of the engine specification.                               *)
(***************************************************************************)
\* candidates per sub task: the 512 of line 502, scaled to the model's catalog
ShardQuantum == 1
\* the largest g_get_num_processors () of a run
MaxProcessors == 2
\* calls of the engine's API and changes of its collaborators in one run
MaxEnvSteps == 2

Groups == {1, 2, 3}
ModelObjs == {"M1", "M2"}
BiasObjs == {"B1", "B2"}
\* a NULL GObject pointer
NULL_OBJ == "NULL"

S_a == <<"a">>
S_b == <<"b">>
S_ab == <<"a", "b">>
S_a_b == <<"a", " ", "b">>
S_sp == <<" ">>

\* the BzEntry that created each group, and a second one added later
FirstEntry ==
    [g \in Groups |->
        CASE g = 1 -> [id |-> S_a, title |-> <<"A", "b">>, developer |-> NULL,
                       description |-> NULL, search_tokens |-> S_b,
                       searchable |-> TRUE, usefulness |-> 1]
          [] g = 2 -> [id |-> S_b, title |-> S_a_b, developer |-> S_ab,
                       description |-> NULL, search_tokens |-> S_a_b,
                       searchable |-> FALSE, usefulness |-> 1]
          [] g = 3 -> [id |-> S_ab, title |-> <<"b", "A">>, developer |-> NULL,
                       description |-> NULL, search_tokens |-> <<"b", " ", "a">>,
                       searchable |-> TRUE, usefulness |-> 1]]

SecondEntry ==
    [g \in Groups |->
        CASE g = 1 -> [id |-> S_a, title |-> S_b, developer |-> S_ab,
                       description |-> NULL, search_tokens |-> NULL,
                       searchable |-> TRUE, usefulness |-> 2]
          [] g = 2 -> [id |-> S_b, title |-> S_b, developer |-> S_a,
                       description |-> S_ab, search_tokens |-> S_a,
                       searchable |-> TRUE, usefulness |-> 0]
          [] g = 3 -> [id |-> S_ab, title |-> S_a, developer |-> S_ab,
                       description |-> NULL, search_tokens |-> S_a_b,
                       searchable |-> FALSE, usefulness |-> 1]]

\* the lists bz_search_engine_query must not be called with: NULL and the empty list
NoTerms == {NULL_STRV, << >>}

\* the term arrays callers pass
TermLists ==
    {<<S_a>>, <<S_b>>, <<S_ab>>, <<S_a, S_b>>, << << >> >>, << << >>, << >> >>,
     << << >>, S_a>>, <<S_sp>>}

\* BzSearchBias objects: regex, convert-to, boost appids, linear and exponential
\* boost (NULL, or <<slope, y-intercept>> and <<factor, y-intercept>>)
BiasSpec(regex, convert_to, boost_appids, linear, exponential) ==
    [regex |-> regex, convert_to |-> convert_to, boost_appids |-> boost_appids,
     linear |-> linear, exponential |-> exponential]

Rewrite_a_to_b == BiasSpec(Lit(S_a), S_b, NULL_LIST, NULL_FN, NULL_FN)
Boost_ab == BiasSpec(Lit(S_b), NULL, <<S_ab>>, <<2, 1>>, NULL_FN)
Demote_a == BiasSpec(Lit(S_a), NULL, <<S_a>>, <<0, 2>>, NULL_FN)
Exp_b == BiasSpec(Lit(S_b), NULL, <<S_b>>, NULL_FN, <<1, 1>>)
NoRegex == BiasSpec(NULL_REGEX, S_b, NULL_LIST, NULL_FN, NULL_FN)
BadRegex == BiasSpec(BadPattern, S_b, NULL_LIST, NULL_FN, NULL_FN)

BiasSpecs == {Rewrite_a_to_b, Boost_ab, Demote_a, Exp_b, NoRegex, BadRegex}

(***************************************************************************)
(* The bias table: one iteration of biases_changed's loop, lines 377-481,  *)
(* gives the BiasData inserted at position + i.                            *)
(***************************************************************************)
\* bias_data_new (): a zeroed BiasData (boost_kind 0 is LINEAR, lines 75-79)
bias_data_new ==
    [invalid |-> FALSE, regex |-> NULL_REGEX, convert_to |-> NULL,
     boost |-> NULL_TABLE, boost_kind |-> "LINEAR", slope |-> 0, y_intercept |-> 0]

\* SKIP (), lines 397-406
SkipPlaceholder == [bias_data_new EXCEPT !.invalid = TRUE]

\* lines 408-412
IsIncomplete(spec) ==
    \/ spec.regex = NULL_REGEX
    \/ /\ spec.convert_to = NULL
       /\ \/ spec.boost_appids = NULL_LIST
          \/ spec.linear = NULL_FN /\ spec.exponential = NULL_FN

\* a check that would let a second function through
OneFunctionEnough(spec) == FALSE

\* lines 418-419
HasTwoFunctions(spec) == spec.linear # NULL_FN /\ spec.exponential # NULL_FN

\* lines 441-460
BoostTable(boost_appids) ==
    IF boost_appids # NULL_LIST /\ Len(boost_appids) > 0
    THEN {boost_appids[j] : j \in 1..Len(boost_appids)}
    ELSE NULL_TABLE

\* lines 462-478
ValidBias(spec) ==
    LET d0 == [bias_data_new EXCEPT !.regex = g_regex_new(spec.regex),
                                    !.convert_to = spec.convert_to,
                                    !.boost = BoostTable(spec.boost_appids)]
        d1 == IF spec.linear # NULL_FN
              THEN [d0 EXCEPT !.boost_kind = "LINEAR",
                              !.slope = spec.linear[1],
                              !.y_intercept = spec.linear[2]]
              ELSE d0
    IN  IF spec.exponential # NULL_FN
        THEN [d1 EXCEPT !.boost_kind = "EXPONENTIAL",
                        !.slope = spec.exponential[1],
                        !.y_intercept = spec.exponential[2]]
        ELSE d1

BuildBias(spec) ==
    IF IsIncomplete(spec) THEN SkipPlaceholder
    ELSE IF HasTwoFunctions(spec) THEN SkipPlaceholder
    ELSE IF g_regex_new(spec.regex) = NULL_REGEX THEN SkipPlaceholder
    ELSE ValidBias(spec)

\* g_ptr_array_remove_range (array, position, removed): position counts from 0,
\* and nothing is removed when the range is not inside the array
g_ptr_array_remove_range(array, position, removed) ==
    IF position + removed > Len(array) THEN array
    ELSE SubSeq(array, 1, position) \o SubSeq(array, position + removed + 1, Len(array))

\* g_ptr_array_insert (array, index, data): nothing is inserted past the end
g_ptr_array_insert(array, index, data) ==
    IF index > Len(array) THEN array
    ELSE SubSeq(array, 1, index) \o <<data>> \o SubSeq(array, index + 1, Len(array))

\* a loop that would store nothing for a specification it skips
DropSkipped(mirror, index, data) ==
    IF data.invalid THEN mirror ELSE g_ptr_array_insert(mirror, index, data)

\* lines 404 and 480: the placeholder and the rule go to the same index
StoreEntry(mirror, index, data) == g_ptr_array_insert(mirror, index, data)

\* lines 377-481: the loop over the added items
RECURSIVE InsertAdded(_, _, _, _, _)
InsertAdded(mirror, position, i, added, items) ==
    IF i >= added THEN mirror
    ELSE InsertAdded(StoreEntry(mirror, position + i,
                                BuildBias(items[position + i + 1])),
                     position, i + 1, added, items)

\* a handler that would put the entries of the added items at the end of the table
AppendAdded(mirror, position, removed, added, items) ==
    LET kept == IF removed > 0
                THEN g_ptr_array_remove_range(mirror, position, removed)
                ELSE mirror
    IN  kept \o [i \in 1..added |-> BuildBias(items[position + i])]

\* biases_changed (self, position, removed, added, model), lines 367-482:
\* the mirror afterwards, `items` being the model's content
biases_changed(mirror, position, removed, added, items) ==
    InsertAdded(IF removed > 0
                THEN g_ptr_array_remove_range(mirror, position, removed)
                ELSE mirror,
                position, 0, added, items)

(***************************************************************************)
(* One iteration of query_task_fiber's loop over the table, lines 508-535, *)
(* on st = [query_utf8, active_biases].                                    *)
(***************************************************************************)
\* a loop that would take every entry of the table for a match
SkipsNothing(bias, query_utf8) == FALSE

\* lines 513-517: the two continues
SkipsBias(bias, query_utf8) ==
    \/ bias.invalid
    \/ ~g_regex_match(bias.regex, query_utf8)

\* an iteration that would leave the query as the caller typed it
IterationWithoutRewrite(bias, st) ==
    IF SkipsBias(bias, st.query_utf8) THEN st
    ELSE [query_utf8 |-> st.query_utf8,
          active_biases |-> Append(st.active_biases, bias)]

\* lines 510-534
BiasIteration(bias, st) ==
    IF SkipsBias(bias, st.query_utf8) THEN st
    ELSE [query_utf8 |-> IF bias.convert_to # NULL
                         THEN g_regex_replace(bias.regex, st.query_utf8, bias.convert_to)
                         ELSE st.query_utf8,
          active_biases |-> Append(st.active_biases, bias)]

\* line 502, with the model's ShardQuantum for 512
NSubTasks(len, processors) ==
    LET m == IF len \div ShardQuantum < processors
             THEN len \div ShardQuantum ELSE processors
    IN  IF m < 1 THEN 1 ELSE m

\* a last sub task that would not take the remainder
WorkLengthEven(i, len, n) == len \div n

\* a stride that would be rounded up
WorkOffsetCeil(i, len, n) == i * ((len + n - 1) \div n)

\* lines 548-553: sub task i (from 0) of n over a snapshot of len items
WorkOffset(i, len, n) == i * (len \div n)
WorkLength(i, len, n) ==
    (len \div n) + (IF i >= n - 1 THEN len % n ELSE 0)

(***************************************************************************)
(* g_array_sort (scores, cmp_scores), lines 583-584 and 844-849.           *)
(* cmp_scores never answers 0; the sort is the merge sort of glibc's       *)
(* qsort, which takes the left element when the comparison is <= 0.        *)
(***************************************************************************)
\* a comparison that would put the smaller score first
cmp_ascending(a, b) ==
    IF (~a.val.nan /\ ~b.val.nan /\ DGt(b.val, a.val)) THEN 0 - 1 ELSE 1

cmp_scores(a, b) ==
    IF (~a.val.nan /\ ~b.val.nan /\ DGt(a.val, b.val)) THEN 0 - 1 ELSE 1

RECURSIVE Merge(_, _)
Merge(l, r) ==
    IF Len(l) = 0 THEN r
    ELSE IF Len(r) = 0 THEN l
    ELSE IF cmp_scores(Head(l), Head(r)) <= 0
         THEN <<Head(l)>> \o Merge(Tail(l), r)
         ELSE <<Head(r)>> \o Merge(l, Tail(r))

RECURSIVE g_array_sort(_)
g_array_sort(scores) ==
    IF Len(scores) <= 1 THEN scores
    ELSE LET n1 == Len(scores) \div 2
         IN  Merge(g_array_sort(SubSeq(scores, 1, n1)),
                   g_array_sort(SubSeq(scores, n1 + 1, Len(scores))))

(***************************************************************************)
(* bz_entry_group_add, src/src/bz-entry-group.c lines 858-1167, on the     *)
(* fields the engine reads.  The whole function runs under the group's     *)
(* mutex; the model cuts it in two: AddHead (up to the developer) and      *)
(* AddTail (the rest), so that a reader without the mutex could see half   *)
(* of an update.                                                           *)
(***************************************************************************)
\* a BzEntryGroup after bz_entry_group_init, lines 502-511 (g_object_new zeroes)
FreshGroup ==
    [id |-> NULL, title |-> NULL, developer |-> NULL, description |-> NULL,
     search_tokens |-> NULL, searchable |-> FALSE, max_usefulness |-> 0 - 1]

\* line 941
Overwrites(f, entry) == entry.usefulness >= f.max_usefulness

\* lines 951-986 and 1048-1077: one string field
MergeField(old, new, overwrite) ==
    IF overwrite
    THEN (IF new # NULL THEN new ELSE old)
    ELSE (IF new # NULL /\ old = NULL THEN new ELSE old)

\* lines 894-900, 951-962 and 1048-1057
AddHead(f, entry, overwrite) ==
    [f EXCEPT !.id = IF f.id = NULL THEN entry.id ELSE f.id,
              !.title = MergeField(f.title, entry.title, overwrite),
              !.developer = MergeField(f.developer, entry.developer, overwrite)]

\* lines 963-1038, 1058-1097 and 1163-1166
AddTail(f, entry, overwrite) ==
    [f EXCEPT !.description = MergeField(f.description, entry.description, overwrite),
              !.search_tokens = MergeField(f.search_tokens, entry.search_tokens, overwrite),
              !.max_usefulness = IF overwrite THEN entry.usefulness ELSE f.max_usefulness,
              !.searchable = IF entry.searchable /\ ~f.searchable THEN TRUE
                             ELSE f.searchable]

bz_entry_group_add(f, entry) ==
    AddTail(AddHead(f, entry, Overwrites(f, entry)), entry, Overwrites(f, entry))

\* what the accessors of lines 631-657, 708-713 and 850-856 return
SearchFields(f) ==
    [id |-> f.id, title |-> f.title, developer |-> f.developer,
     description |-> f.description, search_tokens |-> f.search_tokens,
     searchable |-> f.searchable]

(***************************************************************************)
(* State.                                                                  *)
(***************************************************************************)
VARIABLES
    self,           \* BzSearchEngine: [model, biases], object references or NULL
    biases_mirror,  \* self->biases_mirror, the one GPtrArray of BiasData
    model_items,    \* the content of each candidate GListModel
    bias_items,     \* the content of each bias-source GListModel
    connected,      \* the bias sources biases_changed is connected to
    group,          \* the fields of each BzEntryGroup
    mutex,          \* the threads inside each group's mutex
    adder,          \* the thread running bz_entry_group_add
    num_processors, \* g_get_num_processors () of this run
    task,           \* the query in flight: QueryTaskData and the fiber's locals
    sub,            \* the sub tasks: QuerySubTaskData and each fiber's locals
    order,          \* the sub tasks in the order they resolved
    issued,         \* what the engine held when the query was issued
    committed,      \* every value a group's fields had outside a critical section
    seen,           \* the field values each sub task read for its last candidate
    env_steps,      \* API calls and collaborator changes so far
    probe           \* one call of the scoring code on a candidate, outside any query

engineVars == <<self, biases_mirror, model_items, bias_items, connected, group, mutex,
                adder, num_processors, task, sub, order, issued, committed, seen,
                env_steps>>
vars == <<engineVars, probe>>

Workers == 1..MaxProcessors
\* the threads that take group mutexes
SubThread(k) == <<"sub", k>>
AddThread == <<"add", 0>>

IdleTask == [pc |-> "idle"]
NoSub == [pc |-> "none"]
NoIssue == [path |-> "none"]
NotSeen == [g |-> 0]
ProbeIdle == [pc |-> "idle"]

EngineIdle ==
    /\ self = [model |-> NULL_OBJ, biases |-> NULL_OBJ]
    /\ biases_mirror = << >>
    /\ model_items = [m \in ModelObjs |-> << >>]
    /\ bias_items = [b \in BiasObjs |-> << >>]
    /\ connected = {}
    /\ group = [g \in Groups |-> FreshGroup]
    /\ mutex = [g \in Groups |-> {}]
    /\ adder = [pc |-> "idle"]
    /\ num_processors = 1
    /\ task = IdleTask
    /\ sub = [k \in Workers |-> NoSub]
    /\ order = << >>
    /\ issued = NoIssue
    /\ committed = [g \in Groups |-> {}]
    /\ seen = [k \in Workers |-> NotSeen]
    /\ env_steps = 0

(***************************************************************************)
(* The engine specification starts after the application's start-up        *)
(* (bz-application.c lines 2792-2794): every group was created by one      *)
(* bz_entry_group_add, the engine holds the catalog M1 and the bias source *)
(* B1, and the mirror was built by bz_search_engine_set_biases.            *)
(***************************************************************************)
InitialModelItems == [m \in ModelObjs |-> IF m = "M1" THEN <<1, 2, 3>> ELSE << >>]
InitialBiasItems ==
    [b \in BiasObjs |-> IF b = "B1" THEN <<Demote_a, Exp_b>>
                        ELSE <<Rewrite_a_to_b, NoRegex, Boost_ab>>]
\* what a collaborator may insert into a bias source later
SpliceSpecs == {BadRegex}
\* the longest bias source and catalog the environment builds
MaxListLen == 3

Init ==
    /\ self = [model |-> "M1", biases |-> "B1"]
    /\ model_items = InitialModelItems
    /\ bias_items = InitialBiasItems
    /\ biases_mirror = biases_changed(<< >>, 0, 0, Len(InitialBiasItems["B1"]),
                                      InitialBiasItems["B1"])
    /\ connected = {"B1"}
    /\ group = [g \in Groups |-> bz_entry_group_add(FreshGroup, FirstEntry[g])]
    /\ mutex = [g \in Groups |-> {}]
    /\ adder = [pc |-> "idle"]
    /\ num_processors \in 1..MaxProcessors
    /\ task = IdleTask
    /\ sub = [k \in Workers |-> NoSub]
    /\ order = << >>
    /\ issued = NoIssue
    /\ committed = [g \in Groups |->
                       {SearchFields(bz_entry_group_add(FreshGroup, FirstEntry[g]))}]
    /\ seen = [k \in Workers |-> NotSeen]
    /\ env_steps = 0
    /\ probe = ProbeIdle

InFlight == task.pc \in {"fiber", "await"}
EnvStep == env_steps < MaxEnvSteps /\ env_steps' = env_steps + 1

\* g_list_model_get_n_items (self->model) and g_list_model_get_item (self->model, i)
ModelContent == IF self.model = NULL_OBJ THEN << >> ELSE model_items[self.model]

(***************************************************************************)
(* bz_search_engine_query, lines 301-365.                                  *)
(***************************************************************************)
\* the score of a BzSearchResult nobody called bz_search_result_set_score on
UNSET == <<"unset">>

\* a result that would count its index from 1
ResultFromOne(g, i) == [group |-> g, original_index |-> i + 1, score |-> UNSET]

\* the BzSearchResult of lines 330-332: no score is set
UnrankedResult(g, i) == [group |-> g, original_index |-> i, score |-> UNSET]

\* a fast path for the empty query alone
EmptyQueryOnly(terms) == terms[1] = << >>

\* a fast path that would need every term to be empty
EveryTermEmpty(terms) ==
    \/ self.model = NULL_OBJ
    \/ Len(ModelContent) = 0
    \/ \A i \in 1..Len(terms) : terms[i] = << >>

\* lines 313-315
TakesFastPath(terms) ==
    \/ self.model = NULL_OBJ
    \/ Len(ModelContent) = 0
    \/ terms[1] = << >>

\* lines 317-341
FastPathResult ==
    [interpreted_query |-> << >>,
     results |-> [i \in 1..Len(ModelContent) |-> UnrankedResult(ModelContent[i], i - 1)],
     n_results |-> Len(ModelContent)]

\* a copy that would not keep the model's order
SnapshotReversed(items) == [i \in 1..Len(items) |-> items[Len(items) + 1 - i]]

\* lines 348-352: the snapshot is a copy of the model's item pointers
TakeSnapshot(items) == items

\* a check that would let a NULL list through
NonEmptyTerms(terms) == terms # << >>

\* line 308: terms != NULL && *terms != NULL
TermsGiven(terms) == terms # NULL_STRV /\ terms # << >>

\* dex_return_error_if_fail, lines 307-308: the future returned is already rejected
RejectedFuture(terms) == [pc |-> "rejected", terms |-> terms, error |-> "precondition"]

\* the call, on everything but the probe
QueryCall(terms) ==
    /\ task.pc \in {"idle", "done", "failed", "rejected"}
    /\ EnvStep
    /\ IF ~TermsGiven(terms)
       THEN /\ task' = RejectedFuture(terms)
            /\ UNCHANGED issued
       ELSE IF TakesFastPath(terms)
       THEN /\ task' = [pc |-> "done", terms |-> terms, result |-> FastPathResult]
            /\ issued' = [path |-> "fast", items |-> ModelContent]
       ELSE /\ task' = [pc |-> "fiber", terms |-> terms,
                        snapshot |-> TakeSnapshot(ModelContent),
                        query_utf8 |-> g_strjoinv(terms),
                        i |-> 0, active_biases |-> << >>]
            /\ issued' = [path |-> "ranked", items |-> ModelContent,
                          table |-> biases_mirror,
                          records |-> [g \in Groups |-> SearchFields(group[g])],
                          clean |-> TRUE]
    /\ UNCHANGED <<self, biases_mirror, model_items, bias_items, connected, group,
                   mutex, adder, num_processors, sub, order, committed, seen>>

bz_search_engine_query(terms) == QueryCall(terms) /\ UNCHANGED probe

(***************************************************************************)
(* bz_search_engine_set_model, lines 287-299, and                          *)
(* bz_search_engine_set_biases, lines 251-278.                             *)
(***************************************************************************)
\* the bias table changes while the fiber may still read it
TableTouched ==
    IF task.pc = "fiber" THEN [issued EXCEPT !.clean = FALSE] ELSE issued

bz_search_engine_set_model(m) ==
    /\ EnvStep
    /\ m # self.model
    /\ self' = [self EXCEPT !.model = m]
    /\ UNCHANGED <<biases_mirror, model_items, bias_items, connected, group, mutex,
                   adder, num_processors, task, sub, order, issued, committed, seen,
                   probe>>

\* a setter that would leave the handler on the old source
StaysConnected(handlers, old, b) ==
    handlers \cup (IF b = NULL_OBJ THEN {} ELSE {b})

\* lines 258-259 and 272-274: the sources whose items-changed runs biases_changed
ConnectedAfter(handlers, old, b) ==
    (handlers \ {old}) \cup (IF b = NULL_OBJ THEN {} ELSE {b})

bz_search_engine_set_biases(b) ==
    /\ EnvStep
    /\ b # self.biases
    /\ self' = [self EXCEPT !.biases = b]
    /\ connected' = ConnectedAfter(connected, self.biases, b)
    /\ biases_mirror' = IF b = NULL_OBJ THEN << >>
                        ELSE biases_changed(<< >>, 0, 0, Len(bias_items[b]), bias_items[b])
    /\ issued' = TableTouched
    /\ UNCHANGED <<model_items, bias_items, group, mutex, adder, num_processors, task,
                   sub, order, committed, seen, probe>>

(***************************************************************************)
(* The collaborators' lists change: items-changed (position, removed,      *)
(* added), with at most one item removed and one added.                    *)
(***************************************************************************)
Splice(items, position, removed, new) ==
    SubSeq(items, 1, position) \o new \o SubSeq(items, position + removed + 1, Len(items))

ItemsInSeq(items) == {items[i] : i \in 1..Len(items)}

\* the bias source b changes; biases_changed runs when it is connected
BiasSourceChanged(b, position, removed, new) ==
    /\ EnvStep
    /\ position + removed <= Len(bias_items[b])
    /\ removed + Len(new) > 0
    /\ Len(bias_items[b]) - removed + Len(new) <= MaxListLen
    /\ LET items == Splice(bias_items[b], position, removed, new)
       IN  /\ bias_items' = [bias_items EXCEPT ![b] = items]
           /\ IF b \in connected
              THEN /\ biases_mirror' = biases_changed(biases_mirror, position, removed,
                                                      Len(new), items)
                   /\ issued' = TableTouched
              ELSE UNCHANGED <<biases_mirror, issued>>
    /\ UNCHANGED <<self, model_items, connected, group, mutex, adder, num_processors,
                   task, sub, order, committed, seen, probe>>

\* the catalog m changes; the engine is not told
ModelChanged(m, position, removed, new) ==
    /\ EnvStep
    /\ position + removed <= Len(model_items[m])
    /\ removed + Len(new) > 0
    /\ Len(model_items[m]) - removed + Len(new) <= MaxListLen
    /\ LET items == Splice(model_items[m], position, removed, new)
       IN  /\ Cardinality(ItemsInSeq(items)) = Len(items)
           /\ model_items' = [model_items EXCEPT ![m] = items]
    /\ UNCHANGED <<self, biases_mirror, bias_items, connected, group, mutex, adder,
                   num_processors, task, sub, order, issued, committed, seen, probe>>

(***************************************************************************)
(* query_task_fiber, lines 484-611.  Every iteration of the loop over the  *)
(* table reads data->biases, which is self->biases_mirror itself (line     *)
(* 356), so the fiber sees what the main thread does to it meanwhile.      *)
(***************************************************************************)
\* a rewrite that would be stored into the term array
RewriteInPlace(terms, query_utf8) ==
    IF query_utf8 = g_strjoinv(terms) THEN terms ELSE <<query_utf8>>

\* lines 487 and 529-530: the rewrite replaces the fiber's own query_utf8, a
\* string g_strjoinv allocated; data->terms is only read, at line 501
TermsAfterRewrite(terms, query_utf8) == terms

FiberBias ==
    /\ task.pc = "fiber"
    /\ task.i < Len(biases_mirror)
    /\ LET st == BiasIteration(biases_mirror[task.i + 1],
                               [query_utf8 |-> task.query_utf8,
                                active_biases |-> task.active_biases])
       IN  task' = [task EXCEPT !.i = @ + 1,
                                !.terms = TermsAfterRewrite(@, st.query_utf8),
                                !.query_utf8 = st.query_utf8,
                                !.active_biases = st.active_biases]
    /\ UNCHANGED <<self, biases_mirror, model_items, bias_items, connected, group,
                   mutex, adder, num_processors, sub, order, issued, committed, seen,
                   env_steps, probe>>

\* lines 538-561
FiberSpawn ==
    /\ task.pc = "fiber"
    /\ task.i >= Len(biases_mirror)
    /\ LET len == Len(task.snapshot)
           n   == NSubTasks(len, num_processors)
       IN  /\ task' = [pc |-> "await", terms |-> task.terms, snapshot |-> task.snapshot,
                       query_utf8 |-> task.query_utf8,
                       active_biases |-> task.active_biases, n_sub_tasks |-> n]
           /\ sub' = [k \in Workers |->
                        IF k <= n
                        THEN [pc |-> "loop", query_utf8 |-> task.query_utf8,
                              work_offset |-> WorkOffset(k - 1, len, n),
                              work_length |-> WorkLength(k - 1, len, n), i |-> 0,
                              scores_out |-> << >>]
                        ELSE NoSub]
    /\ order' = << >>
    /\ UNCHANGED <<self, biases_mirror, model_items, bias_items, connected, group,
                   mutex, adder, num_processors, issued, committed, seen,
                   env_steps, probe>>

(***************************************************************************)
(* query_sub_task_fiber, lines 613-703, one candidate in two steps: the    *)
(* lock with the reads of lines 634-641, then the scoring of lines 642-699 *)
(* and the release of the locker at the end of the iteration.              *)
(***************************************************************************)
\* a locker that would not wait for the holder
MutexIgnored(g) == TRUE

\* g_mutex_locker_new returns when nobody holds the group's mutex
MutexFree(g) == mutex[g] = {}

\* a locker that would never give the mutex back
LockerLeaked(holders, thread) == holders

\* g_mutex_locker_free, run by g_autoptr when the locker leaves its scope
g_mutex_locker_free(holders, thread) == holders \ {thread}

\* a continue that would leave with the mutex still locked
HeldOverContinue(holders, thread) == holders \cup {thread}

\* lines 635-638: the mutex locked at line 635 is unlocked by the continue, which
\* leaves the scope of the locker
LockedUntilContinue(holders, thread) ==
    g_mutex_locker_free(holders \cup {thread}, thread)

\* line 634
CandidateOf(k) == task.snapshot[sub[k].work_offset + sub[k].i + 1]

\* a test that would take every candidate for searchable
AlwaysSearchable(f) == TRUE

\* bz_entry_group_is_searchable, bz-entry-group.c lines 850-856
bz_entry_group_is_searchable(f) == f.searchable

SubTaskHead(k) ==
    /\ sub[k].pc = "loop"
    /\ sub[k].i < sub[k].work_length
    /\ MutexFree(CandidateOf(k))
    /\ IF ~bz_entry_group_is_searchable(group[CandidateOf(k)])
       THEN /\ sub' = [sub EXCEPT ![k].i = @ + 1]
            /\ mutex' = [mutex EXCEPT ![CandidateOf(k)] =
                                       LockedUntilContinue(@, SubThread(k))]
       ELSE /\ sub' = [sub EXCEPT ![k] =
                         [pc |-> "locked", query_utf8 |-> sub[k].query_utf8,
                          work_offset |-> sub[k].work_offset,
                          work_length |-> sub[k].work_length, i |-> sub[k].i,
                          scores_out |-> sub[k].scores_out, g |-> CandidateOf(k),
                          id |-> group[CandidateOf(k)].id,
                          title |-> group[CandidateOf(k)].title]]
            /\ mutex' = [mutex EXCEPT ![CandidateOf(k)] = @ \cup {SubThread(k)}]
    /\ UNCHANGED <<self, biases_mirror, model_items, bias_items, connected, group,
                   adder, num_processors, task, order, issued, committed, seen,
                   env_steps, probe>>

SubTaskScore(k) ==
    /\ sub[k].pc = "locked"
    /\ LET g     == sub[k].g
           f     == [SearchFields(group[g]) EXCEPT !.id = sub[k].id,
                                                   !.title = sub[k].title,
                                                   !.searchable = TRUE]
           score == FinalScore(sub[k].query_utf8, f, task.active_biases)
           idx   == sub[k].work_offset + sub[k].i
       IN  /\ sub' = [sub EXCEPT ![k] =
                        [pc |-> "loop", query_utf8 |-> sub[k].query_utf8,
                         work_offset |-> sub[k].work_offset,
                         work_length |-> sub[k].work_length, i |-> sub[k].i + 1,
                         scores_out |-> IF ClearsThreshold(score)
                                        THEN Append(sub[k].scores_out,
                                                    [idx |-> idx, val |-> score])
                                        ELSE sub[k].scores_out]]
           /\ mutex' = [mutex EXCEPT ![g] = g_mutex_locker_free(@, SubThread(k))]
           /\ seen' = [seen EXCEPT ![k] = [g |-> g, idx |-> idx, fields |-> f,
                                           score |-> score]]
    /\ UNCHANGED <<self, biases_mirror, model_items, bias_items, connected, group,
                   adder, num_processors, task, order, issued, committed, env_steps,
                   probe>>

\* lines 697-702: the sub task resolves with its scores_out
SubTaskReturn(k) ==
    /\ sub[k].pc = "loop"
    /\ sub[k].i >= sub[k].work_length
    /\ sub' = [sub EXCEPT ![k] = [pc |-> "resolved", query_utf8 |-> sub[k].query_utf8,
                                  scores_out |-> sub[k].scores_out]]
    /\ order' = Append(order, k)
    /\ UNCHANGED <<self, biases_mirror, model_items, bias_items, connected, group,
                   mutex, adder, num_processors, task, issued, committed, seen,
                   env_steps, probe>>

(***************************************************************************)
(* query_task_fiber after dex_await, lines 563-610.                        *)
(***************************************************************************)
\* lines 572-582: scores_out of every sub task, in the order of sub_futures
RECURSIVE GatherScores(_, _)
GatherScores(outs, futures) ==
    IF Len(futures) = 0 THEN << >>
    ELSE outs[Head(futures)] \o GatherScores(outs, Tail(futures))

\* the sub tasks as they happened to resolve
ResolvedOrder(n, resolved) == resolved

\* sub_futures, filled by the loop of lines 539-561
SubFutures(n, resolved) == [i \in 1..n |-> i]

\* a result that would take the group at the entry's rank
ResultByRank(snapshot, sorted) ==
    [i \in 1..Len(sorted) |->
        [group |-> snapshot[i], original_index |-> sorted[i].idx,
         score |-> sorted[i].val]]

\* lines 587-603
RankedResult(snapshot, sorted) ==
    [i \in 1..Len(sorted) |->
        [group |-> snapshot[sorted[i].idx + 1], original_index |-> sorted[i].idx,
         score |-> sorted[i].val]]

\* the states of the futures in sub_futures
FutureStates(n) == [k \in 1..n |-> sub[k].pc]

\* dex_future_allv completes once every future in sub_futures has completed
AllCompleted(n) == \A k \in 1..n : sub[k].pc \in {"resolved", "rejected"}

\* a coordinator that returns whatever scores there are
AwaitNeverFails(states) == FALSE

\* lines 565-568: dex_await returns FALSE when a future of the set was rejected
AwaitFailed(states) == \E k \in DOMAIN states : states[k] = "rejected"

\* a result that would report the query as the caller typed it
JoinedTerms(terms, query_utf8) == g_strjoinv(terms)

\* line 606: the fiber's query_utf8 after the loop over the table
InterpretedQuery(terms, query_utf8) == query_utf8

FiberFinish ==
    /\ task.pc = "await"
    /\ AllCompleted(task.n_sub_tasks)
    /\ ~AwaitFailed(FutureStates(task.n_sub_tasks))
    /\ LET outs   == [k \in 1..task.n_sub_tasks |-> sub[k].scores_out]
           scores == GatherScores(outs, SubFutures(task.n_sub_tasks, order))
           sorted == g_array_sort(scores)
       IN  task' = [pc |-> "done", terms |-> task.terms,
                    result |-> [interpreted_query |->
                                    InterpretedQuery(task.terms, task.query_utf8),
                                results |-> RankedResult(task.snapshot, sorted),
                                n_results |-> Len(sorted)],
                    sub_futures |-> FutureStates(task.n_sub_tasks)]
    /\ sub' = [k \in Workers |-> NoSub]
    /\ seen' = [k \in Workers |-> NotSeen]
    /\ UNCHANGED <<self, biases_mirror, model_items, bias_items, connected, group,
                   mutex, adder, num_processors, order, issued, committed, env_steps,
                   probe>>

\* lines 568-569: the fiber returns a future rejected with the error of the await
FiberFail ==
    /\ task.pc = "await"
    /\ AllCompleted(task.n_sub_tasks)
    /\ AwaitFailed(FutureStates(task.n_sub_tasks))
    /\ \E k \in 1..task.n_sub_tasks :
          /\ sub[k].pc = "rejected"
          /\ task' = [pc |-> "failed", terms |-> task.terms, error |-> sub[k].error,
                       sub_futures |-> FutureStates(task.n_sub_tasks)]
    /\ seen' = [k \in Workers |-> NotSeen]
    /\ UNCHANGED <<self, biases_mirror, model_items, bias_items, connected, group,
                   mutex, adder, num_processors, sub, order, issued, committed,
                   env_steps, probe>>

\* a sub task future that completes with an error instead of its scores
SubTaskReject(k) ==
    /\ sub[k].pc = "loop"
    /\ sub[k].i >= sub[k].work_length
    /\ sub' = [sub EXCEPT ![k] = [pc |-> "rejected", query_utf8 |-> sub[k].query_utf8,
                                  scores_out |-> sub[k].scores_out,
                                  error |-> <<"error", k>>]]
    /\ UNCHANGED <<self, biases_mirror, model_items, bias_items, connected, group,
                   mutex, adder, num_processors, task, order, issued, committed, seen,
                   env_steps, probe>>

(***************************************************************************)
(* bz_entry_group_add on another thread, bz-entry-group.c lines 858-1167:  *)
(* the mutex is taken at line 892 and held to the end.                     *)
(***************************************************************************)
\* a group's record changes while a query may still read it
RecordTouched ==
    IF InFlight THEN [issued EXCEPT !.clean = FALSE] ELSE issued

AddBegin(g) ==
    /\ adder.pc = "idle"
    /\ EnvStep
    /\ MutexFree(g)
    /\ mutex' = [mutex EXCEPT ![g] = @ \cup {AddThread}]
    /\ adder' = [pc |-> "head", g |-> g,
                 overwrite |-> Overwrites(group[g], SecondEntry[g])]
    /\ group' = [group EXCEPT ![g] = AddHead(@, SecondEntry[g],
                                             Overwrites(group[g], SecondEntry[g]))]
    /\ issued' = RecordTouched
    /\ UNCHANGED <<self, biases_mirror, model_items, bias_items, connected,
                   num_processors, task, sub, order, committed, seen, probe>>

AddEnd ==
    /\ adder.pc = "head"
    /\ group' = [group EXCEPT ![adder.g] = AddTail(@, SecondEntry[adder.g],
                                                   adder.overwrite)]
    /\ mutex' = [mutex EXCEPT ![adder.g] = g_mutex_locker_free(@, AddThread)]
    /\ committed' = [committed EXCEPT ![adder.g] = @ \cup {SearchFields(group'[adder.g])}]
    /\ adder' = [pc |-> "idle"]
    /\ issued' = RecordTouched
    /\ UNCHANGED <<self, biases_mirror, model_items, bias_items, connected,
                   num_processors, task, sub, order, seen, env_steps, probe>>

Next ==
    \/ \E terms \in TermLists \cup NoTerms : bz_search_engine_query(terms)
    \/ \E m \in ModelObjs \cup {NULL_OBJ} : bz_search_engine_set_model(m)
    \/ \E b \in BiasObjs \cup {NULL_OBJ} : bz_search_engine_set_biases(b)
    \/ \E b \in BiasObjs, position \in 0..MaxListLen, removed \in 0..1,
          new \in {<< >>} \cup {<<x>> : x \in SpliceSpecs} :
            BiasSourceChanged(b, position, removed, new)
    \/ \E m \in ModelObjs, position \in 0..MaxListLen, removed \in 0..1,
          new \in {<< >>} \cup {<<g>> : g \in Groups} :
            ModelChanged(m, position, removed, new)
    \/ \E g \in Groups : AddBegin(g)
    \/ AddEnd
    \/ FiberBias
    \/ FiberSpawn
    \/ \E k \in Workers : SubTaskHead(k)
    \/ \E k \in Workers : SubTaskScore(k)
    \/ \E k \in Workers : SubTaskReturn(k)
    \/ FiberFinish

Spec == Init /\ [][Next]_vars

(***************************************************************************)
(* The engine with sub task futures that may be rejected: what the         *)
(* coordinator does at lines 565-569 when dex_await reports a failure.     *)
(***************************************************************************)
NextFault ==
    \/ Next
    \/ \E k \in Workers : SubTaskReject(k)
    \/ FiberFail

SpecFault == Init /\ [][NextFault]_vars

(***************************************************************************)
(* The engine next to the other handlers that lock a group's mutex,        *)
(* bz-entry-group.c lines 1202-1299, under fair scheduling.  The handlers  *)
(* run on the thread that runs bz_entry_group_add; what they write         *)
(* (installable, removable, installed_versions, ...) is nothing the search *)
(* reads, so only their critical section is kept.                          *)
(***************************************************************************)
Handlers == {"installed_changed", "holding_changed"}

\* lines 1213 and 1280: locker = g_mutex_locker_new (&self->mutex)
HandlerBegin(handler, g) ==
    /\ adder.pc = "idle"
    /\ EnvStep
    /\ MutexFree(g)
    /\ mutex' = [mutex EXCEPT ![g] = @ \cup {AddThread}]
    /\ adder' = [pc |-> handler, g |-> g]
    /\ UNCHANGED <<self, biases_mirror, model_items, bias_items, connected, group,
                   num_processors, task, sub, order, issued, committed, seen, probe>>

installed_changed(g) == HandlerBegin("installed_changed", g)

holding_changed(g) == HandlerBegin("holding_changed", g)

\* lines 1271 and 1299: the locker is freed when the handler returns
HandlerReturn ==
    /\ adder.pc \in Handlers
    /\ mutex' = [mutex EXCEPT ![adder.g] = g_mutex_locker_free(@, AddThread)]
    /\ adder' = [pc |-> "idle"]
    /\ UNCHANGED <<self, biases_mirror, model_items, bias_items, connected, group,
                   num_processors, task, sub, order, issued, committed, seen,
                   env_steps, probe>>

\* the catalog m changes so that it lists a group twice: two sub tasks then lock
\* the same record, as the sub tasks of two queries do
ModelRepeated(m, position, removed, g) ==
    /\ EnvStep
    /\ position + removed <= Len(model_items[m])
    /\ Len(model_items[m]) - removed + 1 <= MaxListLen
    /\ LET items == Splice(model_items[m], position, removed, <<g>>)
       IN  /\ Cardinality(ItemsInSeq(items)) < Len(items)
           /\ model_items' = [model_items EXCEPT ![m] = items]
    /\ UNCHANGED <<self, biases_mirror, bias_items, connected, group, mutex, adder,
                   num_processors, task, sub, order, issued, committed, seen, probe>>

NextLive ==
    \/ Next
    \/ \E m \in ModelObjs, position \in 0..MaxListLen, removed \in 0..1, g \in Groups :
          ModelRepeated(m, position, removed, g)
    \/ \E g \in Groups : installed_changed(g)
    \/ \E g \in Groups : holding_changed(g)
    \/ HandlerReturn

\* the schedulers run every fiber that can run, and a thread inside a critical
\* section reaches its end.  SubTaskScore(k) is enabled exactly while sub task k
\* is at "locked" and is the only step that leaves it, so its weak fairness is
\* written on the state.
Fairness ==
    /\ WF_vars(FiberBias)
    /\ WF_vars(FiberSpawn)
    /\ WF_vars(FiberFinish)
    /\ \A k \in Workers : WF_vars(SubTaskHead(k))
    /\ \A k \in Workers : []<>(sub[k].pc # "locked")
    /\ \A k \in Workers : WF_vars(SubTaskReturn(k))
    /\ WF_vars(AddEnd)
    /\ WF_vars(HandlerReturn)

SpecLive == Init /\ [][NextLive]_vars /\ Fairness

(***************************************************************************)
(* C1  No torn read: a sub task reads a candidate's searchable flag, id,   *)
(* title, developer, description and search tokens only while it alone     *)
(* holds that candidate's mutex, bz_entry_group_add changes them only      *)
(* while holding it, and so the fields a sub task scores for one candidate *)
(* are one value the record had outside any add: fully before or fully     *)
(* after it.                                                               *)
(***************************************************************************)
C1_NoTornRead ==
    /\ \A g \in Groups : Cardinality(mutex[g]) <= 1
    /\ \A k \in Workers : sub[k].pc = "locked" => mutex[sub[k].g] = {SubThread(k)}
    /\ adder.pc = "head" => mutex[adder.g] = {AddThread}
    /\ \A k \in Workers : seen[k].g # 0 => seen[k].fields \in committed[seen[k].g]

\* a sub task scored a candidate that an add changed while the query was in flight
C1_Witness ==
    \E k \in Workers :
        /\ seen[k].g # 0
        /\ issued.path = "ranked"
        /\ ~issued.clean
        /\ Cardinality(committed[seen[k].g]) = 2

(***************************************************************************)
(* The query as a function of what the engine held when it was issued:     *)
(* the loop over the table, then every candidate in index order.           *)
(***************************************************************************)
RECURSIVE BiasLoop(_, _, _)
BiasLoop(table, i, st) ==
    IF i > Len(table) THEN st
    ELSE BiasLoop(table, i + 1, BiasIteration(table[i], st))

IssuedInterpretation ==
    BiasLoop(issued.table, 1,
             [query_utf8 |-> g_strjoinv(task.terms), active_biases |-> << >>])

RECURSIVE SequentialScores(_, _, _, _, _)
SequentialScores(items, records, query_utf8, active_biases, idx) ==
    IF idx >= Len(items) THEN << >>
    ELSE LET f     == records[items[idx + 1]]
             score == FinalScore(query_utf8, f, active_biases)
         IN  (IF f.searchable /\ ClearsThreshold(score)
              THEN <<[idx |-> idx, val |-> score]>>
              ELSE << >>)
             \o SequentialScores(items, records, query_utf8, active_biases, idx + 1)

IssuedScores ==
    SequentialScores(issued.items, issued.records, IssuedInterpretation.query_utf8,
                     IssuedInterpretation.active_biases, 0)

IssuedResult ==
    [interpreted_query |-> IssuedInterpretation.query_utf8,
     results |-> RankedResult(issued.items, g_array_sort(IssuedScores)),
     n_results |-> Len(IssuedScores)]

\* a ranked query finished, and neither the table during its loop nor any
\* record during its flight was changed
FinishedClean == task.pc = "done" /\ issued.path = "ranked" /\ issued.clean

(***************************************************************************)
(* C2  The bias table read by an in-flight query is never mutated in       *)
(* place: while query_task_fiber iterates the table it is the table of the *)
(* moment the query was issued, and so the rewritten query and the active  *)
(* biases the sub tasks get are those of the table at issue.               *)
(***************************************************************************)
C2_TableNotMutated ==
    /\ task.pc = "fiber" => biases_mirror = issued.table
    /\ task.pc = "await" =>
           /\ task.query_utf8 = IssuedInterpretation.query_utf8
           /\ task.active_biases = IssuedInterpretation.active_biases

(***************************************************************************)
(* C3  Snapshot isolation of candidates: the candidates a query ranks, and *)
(* their original indices, are the content of the model at the moment      *)
(* bz_search_engine_query was called, whatever happens to the backing      *)
(* collection or to the engine's model afterwards; the content at the call *)
(* is the changed one for a query issued after a change.                   *)
(***************************************************************************)
C3_SnapshotIsolation ==
    /\ InFlight => task.snapshot = issued.items
    /\ \A k \in Workers :
           sub[k].pc = "locked" =>
               sub[k].g = issued.items[sub[k].work_offset + sub[k].i + 1]
    /\ \A k \in Workers : seen[k].g # 0 => seen[k].g = issued.items[seen[k].idx + 1]
    /\ (task.pc = "done" /\ issued.path = "ranked") =>
           \A i \in 1..Len(task.result.results) :
               /\ task.result.results[i].original_index \in 0..(Len(issued.items) - 1)
               /\ task.result.results[i].group =
                      issued.items[task.result.results[i].original_index + 1]

\* a sub task scored a candidate that had left the engine's model meanwhile
C3_Witness ==
    \E k \in Workers :
        /\ task.pc = "await"
        /\ seen[k].g # 0
        /\ seen[k].g \notin ItemsInSeq(ModelContent)

(***************************************************************************)
(* C4  Determinism: with the records and the bias table unchanged, the     *)
(* interpreted query and the ordered list of (original index, score)       *)
(* results are a function of the term list, the snapshot, the records and  *)
(* the table alone: every number of sub tasks, interleaving and completion *)
(* order gives the result of one sequential pass.                          *)
(***************************************************************************)
C4_Determinism == FinishedClean => task.result = IssuedResult

\* two sub tasks resolved last-first and their candidates tie in the result
C4_Witness ==
    /\ FinishedClean
    /\ order = <<2, 1>>
    /\ \E i, j \in 1..Len(task.result.results) :
           /\ i < j
           /\ task.result.results[i].score = task.result.results[j].score
           /\ task.result.results[i].original_index = 2
           /\ task.result.results[j].original_index = 0

(***************************************************************************)
(* C5  Sharding transparency: whatever the number of sub tasks, the ranked *)
(* path gives the (original index, score) pairs of a single pass over the  *)
(* whole snapshot, each once, with the same score at every rank; only the  *)
(* order among equal scores may differ.                                    *)
(***************************************************************************)
ResultPairs(results) ==
    {<<results[i].original_index, results[i].score>> : i \in 1..Len(results)}

SinglePass == g_array_sort(IssuedScores)

C5_ShardingTransparent ==
    FinishedClean =>
        LET single == SinglePass
        IN  /\ Len(task.result.results) = Len(single)
            /\ ResultPairs(task.result.results) =
                   {<<single[i].idx, single[i].val>> : i \in 1..Len(single)}
            /\ Cardinality(ResultPairs(task.result.results)) = Len(task.result.results)
            /\ \A i \in 1..Len(single) :
                   task.result.results[i].score = single[i].val

\* two sub tasks over three candidates, the last candidate ranked first
C5_Witness ==
    /\ FinishedClean
    /\ num_processors = 2
    /\ Len(issued.items) = 3
    /\ Len(order) = 2
    /\ Len(task.result.results) >= 2
    /\ task.result.results[1].original_index = 2
    /\ task.result.results[1].score # task.result.results[2].score

(***************************************************************************)
(* C6  Exact-match top rank: in a result set of the ranked path, a         *)
(* candidate whose identifier equals the post-rewrite query, or whose      *)
(* title equals it ignoring case, has nothing ranked above it except other *)
(* exact matches and candidates of equal score, whatever the bias table.   *)
(***************************************************************************)
ResultIsExact(e) ==
    IsExactMatch(task.result.interpreted_query, issued.records[e.group].id,
                 issued.records[e.group].title)

C6_ExactMatchOnTop ==
    FinishedClean =>
        \A i, j \in 1..Len(task.result.results) :
            (j < i /\ ResultIsExact(task.result.results[i])) =>
                \/ ResultIsExact(task.result.results[j])
                \/ task.result.results[j].score = task.result.results[i].score

(***************************************************************************)
(* C8  Linear bias application: when exactly one active bias has the       *)
(* candidate's identifier in its boost set, and it was built from a rule   *)
(* with the linear transform (slope, intercept), the candidate's final     *)
(* score is slope * base + intercept, base being what the same query gives *)
(* it with no bias; a candidate in no active boost set keeps its base.     *)
(***************************************************************************)
Boosting(active_biases, id) ==
    {j \in 1..Len(active_biases) :
        active_biases[j].boost # NULL_TABLE /\ id \in active_biases[j].boost}

C8_LinearBias ==
    \A k \in Workers :
        seen[k].g # 0 =>
            LET base == BaseScore(task.query_utf8, seen[k].fields)
                on   == Boosting(task.active_biases, seen[k].fields.id)
            IN  /\ on = {} => seen[k].score = base
                /\ \A j \in on, spec \in BiasSpecs :
                       ( /\ on = {j}
                         /\ spec.linear # NULL_FN
                         /\ task.active_biases[j] = BuildBias(spec) )
                       => seen[k].score =
                              DAdd(DMulRat(base, spec.linear[1], 1), Whole(spec.linear[2]))

\* a candidate scored 2.5 by its fields was boosted by (2, 1) to 6
C8_Witness ==
    \E k \in Workers :
        /\ seen[k].g # 0
        /\ Boosting(task.active_biases, seen[k].fields.id) = {Len(task.active_biases)}
        /\ task.active_biases[Len(task.active_biases)] = BuildBias(Boost_ab)
        /\ ~IsExactMatch(task.query_utf8, seen[k].fields.id, seen[k].fields.title)
        /\ DGt(BaseScore(task.query_utf8, seen[k].fields), Whole(2))
        /\ seen[k].score = Whole(6)

(***************************************************************************)
(* C9  Empty or absent collection: when the engine has no model, or a      *)
(* model of zero items, bz_search_engine_query gives for every term list   *)
(* a resolved future with no entries, n_results 0 and the empty string as  *)
(* interpreted query, and spawns nothing.                                  *)
(***************************************************************************)
EmptyResult == [interpreted_query |-> << >>, results |-> << >>, n_results |-> 0]

C9_EmptyCollection ==
    (issued.path # "none" /\ TermsGiven(task.terms) /\ issued.items = << >>) =>
        /\ task.pc = "done"
        /\ task.result = EmptyResult
        /\ \A k \in Workers : sub[k] = NoSub

\* a query for "a" or "b" on an engine without a model
C9_Witness ==
    /\ issued.path = "fast"
    /\ issued.items = << >>
    /\ self.model = NULL_OBJ
    /\ task.terms \in {<<S_a>>, <<S_b>>}
    /\ biases_mirror # << >>

(***************************************************************************)
(* C10  All-empty terms: when every term is the empty string and the model *)
(* has n items, the result has exactly n entries, entry i being model item *)
(* i with original index i, not-searchable candidates included, without a  *)
(* score, whatever the bias table.                                         *)
(***************************************************************************)
AllTermsEmpty(terms) == Len(terms) > 0 /\ \A i \in 1..Len(terms) : terms[i] = << >>

C10_AllEmptyTerms ==
    (issued.path # "none" /\ AllTermsEmpty(task.terms)) =>
        /\ task.pc = "done"
        /\ task.result.interpreted_query = << >>
        /\ task.result.n_results = Len(issued.items)
        /\ Len(task.result.results) = Len(issued.items)
        /\ \A i \in 1..Len(issued.items) :
               /\ task.result.results[i].group = issued.items[i]
               /\ task.result.results[i].original_index = i - 1
               /\ task.result.results[i].score = UNSET

\* two empty terms, three candidates, the second one not searchable, and a
\* table with a rule in it
C10_Witness ==
    /\ issued.path = "fast"
    /\ task.terms = << << >>, << >> >>
    /\ Len(task.result.results) = 3
    /\ ~group[task.result.results[2].group].searchable
    /\ \E j \in 1..Len(biases_mirror) : ~biases_mirror[j].invalid

(***************************************************************************)
(* C11  Whitespace-only query: when the joined query is not empty but      *)
(* holds only whitespace and the model is not empty, the finished result   *)
(* is every candidate once, in model order, as for the empty query.        *)
(***************************************************************************)
WhitespaceOnly(s) == Len(s) > 0 /\ \A i \in 1..Len(s) : s[i] = " "

C11_WhitespaceQuery ==
    ( /\ task.pc = "done"
      /\ WhitespaceOnly(g_strjoinv(task.terms))
      /\ Len(issued.items) > 0 ) =>
        /\ Len(task.result.results) = Len(issued.items)
        /\ \A i \in 1..Len(issued.items) :
               /\ task.result.results[i].group = issued.items[i]
               /\ task.result.results[i].original_index = i - 1

(***************************************************************************)
(* C12  Fail-fast: when the future of a sub task is rejected the query's   *)
(* future is rejected with the error of a rejected sub task and carries no *)
(* result set, whatever scores the other sub tasks returned; a result set  *)
(* of a ranked query is produced only when every sub task resolved.        *)
(***************************************************************************)
C12_FailFast ==
    /\ task.pc = "failed" =>
          /\ "result" \notin DOMAIN task
          /\ \E k \in DOMAIN task.sub_futures :
                /\ task.sub_futures[k] = "rejected"
                /\ sub[k].pc = "rejected"
                /\ task.error = sub[k].error
    /\ (task.pc = "done" /\ issued.path = "ranked") =>
          \A k \in DOMAIN task.sub_futures : task.sub_futures[k] = "resolved"
    /\ (task.pc = "await" /\ AllCompleted(task.n_sub_tasks)) =>
          (ENABLED FiberFail <=> \E k \in 1..task.n_sub_tasks : sub[k].pc = "rejected")

\* one sub task was rejected while another resolved with a score
C12_Witness ==
    /\ task.pc = "failed"
    /\ \E j, k \in DOMAIN task.sub_futures :
          /\ task.sub_futures[k] = "rejected"
          /\ task.sub_futures[j] = "resolved"
          /\ Len(sub[j].scores_out) > 0

(***************************************************************************)
(* C13  Precondition failure is synchronous: a call of                     *)
(* bz_search_engine_query with a NULL or an empty term list returns a      *)
(* future that is already rejected, spawns no coordinator and no sub task, *)
(* takes no snapshot and leaves the engine's model, bias source and bias   *)
(* table as they were.                                                     *)
(***************************************************************************)
C13_SynchronousPrecondition ==
    [][ \A terms \in NoTerms :
          bz_search_engine_query(terms) =>
            /\ task'.pc = "rejected"
            /\ task'.error = "precondition"
            /\ DOMAIN task' = {"pc", "terms", "error"}
            /\ UNCHANGED <<self, biases_mirror, model_items, bias_items, connected,
                           sub, order, issued, seen, group, mutex>> ]_vars

\* a rejected call on an engine that has candidates and bias rules
C13_Witness ==
    /\ task.pc = "rejected"
    /\ task.terms \in NoTerms
    /\ Len(ModelContent) > 0
    /\ Len(biases_mirror) > 0

(***************************************************************************)
(* C14  Deadlock freedom and completion: with the shard workers of a query *)
(* and the handlers that lock one group's mutex running together, no       *)
(* reachable state has a cycle of threads waiting for each other, and      *)
(* under fair scheduling every query in flight ends with a resolved future.*)
(***************************************************************************)
Threads == {SubThread(k) : k \in Workers} \cup {AddThread}

\* sub task k is blocked in bz_entry_group_lock, line 635
Waiting(k) ==
    /\ sub[k].pc = "loop"
    /\ sub[k].i < sub[k].work_length
    /\ ~MutexFree(CandidateOf(k))

\* who waits for whom: a blocked sub task waits for the holders of its
\* candidate's mutex; a handler blocked at its first statement holds no mutex
WaitsFor ==
    UNION {{<<SubThread(k), h>> : h \in mutex[CandidateOf(k)]} :
              k \in {j \in Workers : Waiting(j)}}

Compose(R) ==
    R \cup {<<p[1][1], p[2][2]>> : p \in {q \in R \X R : q[1][2] = q[2][1]}}

\* paths of up to four edges: there are at most four threads
WaitsForPlus == Compose(Compose(WaitsFor))

NoWaitCycle == \A t \in Threads : <<t, t>> \notin WaitsForPlus

HeldBy(thread) == {g \in Groups : thread \in mutex[g]}

C15_LockScope ==
    /\ \A k \in Workers :
          /\ Cardinality(HeldBy(SubThread(k))) <= 1
          /\ sub[k].pc = "locked" => HeldBy(SubThread(k)) = {sub[k].g}
          /\ sub[k].pc \in {"loop", "resolved", "none"} => HeldBy(SubThread(k)) = {}
    /\ \A g \in Groups : mutex[g] \subseteq Threads
    /\ task.pc # "await" => \A k \in Workers : HeldBy(SubThread(k)) = {}

\* a sub task has just skipped a candidate that is not searchable and holds no
\* mutex, while another sub task holds the mutex of its own candidate
C15_Witness ==
    /\ task.pc = "await"
    /\ \E k \in Workers :
          /\ sub[k].pc = "loop"
          /\ sub[k].i > 0
          /\ ~group[task.snapshot[sub[k].work_offset + sub[k].i]].searchable
          /\ HeldBy(SubThread(k)) = {}
    /\ \E j \in Workers : sub[j].pc = "locked" /\ HeldBy(SubThread(j)) = {sub[j].g}

(***************************************************************************)
(* C16  Whole-string bias activation: an iteration of the coordinator's    *)
(* loop over the table rewrites the working query or adds its bias to the  *)
(* active set only if the bias's pattern matches the whole working query   *)
(* string.                                                                 *)
(***************************************************************************)
\* the pattern, a literal, matches s from its first to its last character
MatchesWhole(regex, s) == regex.kind = "lit" /\ s = regex.text

\* the working query and the active set before iteration i of the loop
BeforeIteration(i) ==
    BiasLoop(SubSeq(issued.table, 1, i - 1), 1,
             [query_utf8 |-> g_strjoinv(task.terms), active_biases |-> << >>])

C16_WholeStringActivation ==
    ( /\ task.pc = "fiber"
      /\ issued.clean
      /\ task.i > 0
      /\ task.i <= Len(issued.table) ) =>
        LET before == BeforeIteration(task.i)
            bias   == issued.table[task.i]
        IN  ( \/ task.query_utf8 # before.query_utf8
              \/ task.active_biases # before.active_biases ) =>
                MatchesWhole(bias.regex, before.query_utf8)

(***************************************************************************)
(* C18  Invalid rules are inert: an entry of the table that is marked      *)
(* invalid leaves the working query as it is, is never in the active set   *)
(* and changes no score, and the query does not fail for it: the result of *)
(* a ranked query is the result computed from the table without its        *)
(* invalid entries.                                                        *)
(***************************************************************************)
RECURSIVE WithoutInvalid(_)
WithoutInvalid(table) ==
    IF Len(table) = 0 THEN << >>
    ELSE (IF Head(table).invalid THEN << >> ELSE <<Head(table)>>)
         \o WithoutInvalid(Tail(table))

PrunedInterpretation ==
    BiasLoop(WithoutInvalid(issued.table), 1,
             [query_utf8 |-> g_strjoinv(task.terms), active_biases |-> << >>])

PrunedScores ==
    SequentialScores(issued.items, issued.records, PrunedInterpretation.query_utf8,
                     PrunedInterpretation.active_biases, 0)

PrunedResult ==
    [interpreted_query |-> PrunedInterpretation.query_utf8,
     results |-> RankedResult(issued.items, g_array_sort(PrunedScores)),
     n_results |-> Len(PrunedScores)]

C18_InvalidInert ==
    /\ task.pc \in {"fiber", "await"} =>
          \A i \in 1..Len(task.active_biases) : ~task.active_biases[i].invalid
    /\ (task.pc = "fiber" /\ task.i < Len(biases_mirror)
                          /\ biases_mirror[task.i + 1].invalid) =>
          LET st == [query_utf8 |-> task.query_utf8,
                     active_biases |-> task.active_biases]
          IN  BiasIteration(biases_mirror[task.i + 1], st) = st
    /\ FinishedClean =>
          /\ task.result = PrunedResult
          /\ "error" \notin DOMAIN task

\* a query over a table with an invalid entry next to a valid rule that was
\* active, finished with candidates in its result
C18_Witness ==
    /\ FinishedClean
    /\ \E i \in 1..Len(issued.table) : issued.table[i].invalid
    /\ Len(PrunedInterpretation.active_biases) > 0
    /\ Len(task.result.results) > 0

(***************************************************************************)
(* The table specification: bz_search_engine_set_biases on a fresh engine  *)
(* with a bias source of every shape (lines 264-270), then one             *)
(* items-changed notification of that source (biases_changed, lines        *)
(* 367-482).  probe holds the source's items and the engine's mirror.      *)
(***************************************************************************)
\* the longest bias source the specification starts from
MaxSpecs == 2

\* a specification with each part present or absent, a pattern that does not
\* compile, and a boost list without items
AllSpecs ==
    {BiasSpec(regex, convert_to, boost_appids, linear, exponential) :
        regex \in {Lit(S_a), NULL_REGEX, BadPattern},
        convert_to \in {NULL, S_b},
        boost_appids \in {NULL_LIST, << >>, <<S_a>>},
        linear \in {NULL_FN, <<2, 1>>},
        exponential \in {NULL_FN, <<1, 1>>}}

RECURSIVE SpecListsOfLen(_)
SpecListsOfLen(n) ==
    IF n = 0 THEN {<< >>}
    ELSE {<<x>> \o l : x \in BiasSpecs, l \in SpecListsOfLen(n - 1)}

InitTable ==
    /\ EngineIdle
    /\ probe \in {[pc |-> "specs", items |-> items, mirror |-> << >>] :
                     items \in {<<x>> : x \in AllSpecs} \cup
                               UNION {SpecListsOfLen(n) : n \in 0..MaxSpecs}}

\* lines 261-270: the mirror is emptied, then biases_changed (self, 0, 0, n, biases)
TableBuild ==
    /\ probe.pc = "specs"
    /\ probe' = [pc |-> "built", items |-> probe.items,
                 mirror |-> biases_changed(<< >>, 0, 0, Len(probe.items), probe.items)]
    /\ UNCHANGED engineVars

\* the source emits items-changed (position, removed, added) after its change
TableItemsChanged(position, removed, new) ==
    /\ probe.pc = "built"
    /\ position + removed <= Len(probe.items)
    /\ removed + Len(new) > 0
    /\ Len(probe.items) - removed + Len(new) <= MaxSpecs + 1
    /\ LET items == Splice(probe.items, position, removed, new)
       IN  probe' = [pc |-> "changed", items |-> items,
                     mirror |-> biases_changed(probe.mirror, position, removed,
                                               Len(new), items)]
    /\ UNCHANGED engineVars

NextTable ==
    \/ TableBuild
    \/ \E position \in 0..(MaxSpecs + 1), removed \in 0..1,
          new \in {<< >>} \cup {<<x>> : x \in BiasSpecs} :
            TableItemsChanged(position, removed, new)

SpecTable == InitTable /\ [][NextTable]_vars

(***************************************************************************)
(* C17  Rule validity at load: the entry biases_changed stores for a       *)
(* specification is marked invalid exactly when the specification (a) has  *)
(* no pattern, or (b) has no rewrite and lacks a boost id list or lacks    *)
(* both transforms, or (c) declares both a linear and an exponential       *)
(* transform, or (d) has a pattern that does not compile; every other      *)
(* specification is stored as a valid rule with its pattern, its rewrite,  *)
(* the set of its boost ids and the transform it declares.                 *)
(***************************************************************************)
NoPattern(spec) == spec.regex.kind = "null"
NoRewrite(spec) == spec.convert_to = NULL
NoBoostList(spec) == spec.boost_appids = NULL_LIST
DeclaresLinear(spec) == spec.linear # NULL_FN
DeclaresExponential(spec) == spec.exponential # NULL_FN
DoesNotCompile(spec) == spec.regex.kind = "bad"

MustBeInvalid(spec) ==
    \/ NoPattern(spec)
    \/ NoRewrite(spec) /\ ( \/ NoBoostList(spec)
                            \/ ~DeclaresLinear(spec) /\ ~DeclaresExponential(spec) )
    \/ DeclaresLinear(spec) /\ DeclaresExponential(spec)
    \/ DoesNotCompile(spec)

CarriesSpec(data, spec) ==
    /\ data.regex = spec.regex
    /\ data.convert_to = spec.convert_to
    /\ \A id \in {S_a, S_b, S_ab} :
          (data.boost # NULL_TABLE /\ id \in data.boost) <=>
          (~NoBoostList(spec) /\ \E j \in 1..Len(spec.boost_appids) :
                                     spec.boost_appids[j] = id)
    /\ DeclaresLinear(spec) =>
          /\ data.boost_kind = "LINEAR"
          /\ data.slope = spec.linear[1]
          /\ data.y_intercept = spec.linear[2]
    /\ DeclaresExponential(spec) =>
          /\ data.boost_kind = "EXPONENTIAL"
          /\ data.slope = spec.exponential[1]
          /\ data.y_intercept = spec.exponential[2]

C17_RuleValidity ==
    probe.pc \in {"built", "changed"} =>
        /\ Len(probe.mirror) = Len(probe.items)
        /\ \A i \in 1..Len(probe.items) :
              /\ probe.mirror[i].invalid <=> MustBeInvalid(probe.items[i])
              /\ ~probe.mirror[i].invalid => CarriesSpec(probe.mirror[i], probe.items[i])

\* a specification with a pattern, a rewrite and a boost list is invalid for its
\* two transforms alone, next to one that is stored as a valid rule
C17_Witness ==
    /\ probe.pc = "changed"
    /\ \E i, j \in 1..Len(probe.items) :
          /\ probe.mirror[i].invalid
          /\ ~NoPattern(probe.items[i]) /\ ~DoesNotCompile(probe.items[i])
          /\ ~NoRewrite(probe.items[i]) /\ ~NoBoostList(probe.items[i])
          /\ DeclaresLinear(probe.items[i]) /\ DeclaresExponential(probe.items[i])
          /\ ~probe.mirror[j].invalid
          /\ probe.mirror[j].boost # NULL_TABLE

(***************************************************************************)
(* C19  Positional stability of the bias table: after                      *)
(* bz_search_engine_set_biases and after every items-changed notification  *)
(* of the engine's bias source the table has as many entries as the source *)
(* has items, and entry i is the rule or the invalid placeholder of item   *)
(* i; an invalid specification neither shrinks the table nor shifts the    *)
(* entries after it.                                                       *)
(***************************************************************************)
EntryOf(data, spec) ==
    /\ data.invalid <=> MustBeInvalid(spec)
    /\ ~data.invalid => CarriesSpec(data, spec)

C19_PositionalStability ==
    self.biases # NULL_OBJ =>
        LET items == bias_items[self.biases]
        IN  /\ Len(biases_mirror) = Len(items)
            /\ \A i \in 1..Len(items) : EntryOf(biases_mirror[i], items[i])

\* a notification put an invalid specification in front of valid rules
C19_Witness ==
    /\ self.biases = "B1"
    /\ Len(bias_items["B1"]) = 3
    /\ biases_mirror[1].invalid
    /\ ~biases_mirror[2].invalid /\ EntryOf(biases_mirror[2], Demote_a)
    /\ ~biases_mirror[3].invalid /\ EntryOf(biases_mirror[3], Exp_b)

(***************************************************************************)
(* C20  Bias-source replacement: bz_search_engine_set_biases leaves the    *)
(* table holding the rules of the new source only, and an empty table when *)
(* the new source is NULL; a query issued afterwards starts from that      *)
(* table; and an items-changed notification of a source that is no longer  *)
(* the engine's leaves the table as it is.                                 *)
(***************************************************************************)
IsTableOf(table, items) ==
    /\ Len(table) = Len(items)
    /\ \A i \in 1..Len(items) : EntryOf(table[i], items[i])

SourceItems(b) == IF b = NULL_OBJ THEN << >> ELSE bias_items[b]

C20_SourceReplacement ==
    [][ /\ \A b \in BiasObjs \cup {NULL_OBJ} :
              bz_search_engine_set_biases(b) =>
                /\ IsTableOf(biases_mirror', SourceItems(b))
                /\ connected' = IF b = NULL_OBJ THEN {} ELSE {b}
        /\ \A b \in BiasObjs, position \in 0..MaxListLen, removed \in 0..1,
              new \in {<< >>} \cup {<<x>> : x \in SpliceSpecs} :
              (BiasSourceChanged(b, position, removed, new) /\ b # self.biases) =>
                UNCHANGED biases_mirror
        /\ \A terms \in TermLists :
              (bz_search_engine_query(terms) /\ task'.pc = "fiber") =>
                IsTableOf(issued'.table, SourceItems(self.biases)) ]_vars

\* the engine's source is B2 and its table is B2's, while B1 is no longer what it
\* was when it was the engine's source
C20_Witness ==
    /\ self.biases = "B2"
    /\ connected = {"B2"}
    /\ bias_items["B1"] # InitialBiasItems["B1"]
    /\ IsTableOf(biases_mirror, bias_items["B2"])
    /\ ~IsTableOf(biases_mirror, bias_items["B1"])

(***************************************************************************)
(* The re-issue specification: the engine of Spec, and a caller that       *)
(* issues the query it has just got the result of once more.  probe keeps  *)
(* the first call: its terms, what the engine held and what it answered.   *)
(***************************************************************************)
QueryAgain ==
    /\ task.pc = "done"
    /\ QueryCall(task.terms)
    /\ probe' = [pc |-> "again", terms |-> task.terms, issued |-> issued,
                 result |-> task.result]

NextRepeat ==
    \/ Next
    \/ QueryAgain

SpecRepeat == Init /\ [][NextRepeat]_vars

(***************************************************************************)
(* C21  Query purity: no step of a query, from the call of                 *)
(* bz_search_engine_query to the completion of its future, changes the     *)
(* engine's model reference, its bias source, its bias table, the content  *)
(* of the model or of the bias source, any field of a candidate record, or *)
(* the term array of the query; and the same query issued again, finding   *)
(* what the first one found, gives the result of the first.                *)
(***************************************************************************)
\* a step of the query: the call, the coordinator or a sub task
QueryStep ==
    \/ \E terms \in TermLists \cup NoTerms : QueryCall(terms)
    \/ FiberBias
    \/ FiberSpawn
    \/ \E k \in Workers : SubTaskHead(k)
    \/ \E k \in Workers : SubTaskScore(k)
    \/ \E k \in Workers : SubTaskReturn(k)
    \/ FiberFinish

\* the second call found the engine as the first one had, and nothing the
\* query reads changed during either
SameInputs ==
    /\ probe.pc = "again"
    /\ task.terms = probe.terms
    /\ issued = probe.issued
    /\ issued.path = "ranked" => issued.clean

C21_QueryPurity ==
    /\ [][ QueryStep =>
             /\ UNCHANGED <<self, biases_mirror, model_items, bias_items, connected,
                            group>>
             /\ InFlight => task'.terms = task.terms
             /\ \A terms \in TermLists : QueryCall(terms) => task'.terms = terms ]_vars
    /\ []( (task.pc = "done" /\ SameInputs) => task.result = probe.result )

\* a ranked query over a table with rules in it, issued twice under two
\* processors, has finished for the second time with candidates in its result
C21_Witness ==
    /\ task.pc = "done"
    /\ SameInputs
    /\ issued.path = "ranked"
    /\ num_processors = 2
    /\ Len(issued.table) > 0
    /\ Len(task.result.results) > 1
    /\ task.result = probe.result

(***************************************************************************)
(* C22  Descending order: in every result set of the ranked path no entry  *)
(* has a score greater than the score of an entry before it, whatever the  *)
(* number of sub tasks and the sub tasks the scores came from.             *)
(***************************************************************************)
RankedDone == task.pc = "done" /\ issued.path = "ranked"

\* the sub task that scored original index idx, from 0, of n over len items
ShardOf(idx, len, n) ==
    CHOOSE i \in 0..(n - 1) :
        idx >= WorkOffset(i, len, n) /\ idx < WorkOffset(i, len, n) + WorkLength(i, len, n)

C22_DescendingOrder ==
    RankedDone =>
        \A i, j \in 1..Len(task.result.results) :
            i < j => /\ ~task.result.results[i].score.nan
                     /\ ~task.result.results[j].score.nan
                     /\ ~DGt(task.result.results[j].score, task.result.results[i].score)

\* three entries from two sub tasks, the first one better than the last and
\* scored by the second sub task, whose scores were appended last
C22_Witness ==
    /\ RankedDone
    /\ Len(task.result.results) = 3
    /\ Len(task.sub_futures) = 2
    /\ DGt(task.result.results[1].score, task.result.results[3].score)
    /\ ShardOf(task.result.results[1].original_index, 3, 2) = 1
    /\ ShardOf(task.result.results[3].original_index, 3, 2) = 0

(***************************************************************************)
(* C23  Exclusive threshold: every entry of a ranked result set has a      *)
(* score, after the biases, strictly greater than 1.0; a sub task emits    *)
(* the candidate it scored exactly when that score is strictly greater     *)
(* than 1.0; and the result set of a query holds every searchable          *)
(* candidate of the snapshot whose final score is strictly greater than    *)
(* 1.0 and no other, so that a candidate with a final score of exactly 1.0 *)
(* is left out.                                                            *)
(***************************************************************************)
One == Whole(1)

\* the final score of snapshot index idx for the query as it was issued
IssuedFinalScore(idx) ==
    FinalScore(IssuedInterpretation.query_utf8, issued.records[issued.items[idx + 1]],
               IssuedInterpretation.active_biases)

IssuedSearchable(idx) == issued.records[issued.items[idx + 1]].searchable

ResultIndices(results) == {results[i].original_index : i \in 1..Len(results)}

EmittedBy(k) == {sub[k].scores_out[i].idx : i \in 1..Len(sub[k].scores_out)}

C23_ExclusiveThreshold ==
    /\ RankedDone =>
          \A i \in 1..Len(task.result.results) : DGt(task.result.results[i].score, One)
    /\ \A k \in Workers :
          (seen[k].g # 0 /\ "scores_out" \in DOMAIN sub[k]) =>
              (seen[k].idx \in EmittedBy(k) <=> DGt(seen[k].score, One))
    /\ FinishedClean =>
          ResultIndices(task.result.results) =
              {idx \in 0..(Len(issued.items) - 1) :
                  IssuedSearchable(idx) /\ DGt(IssuedFinalScore(idx), One)}

\* a searchable candidate whose final score is exactly 1.0, a boost of (2, 1) on
\* a base of 0, is not in the result of the finished query
C23_Witness ==
    /\ FinishedClean
    /\ \E idx \in 0..(Len(issued.items) - 1) :
          /\ IssuedSearchable(idx)
          /\ IssuedFinalScore(idx) = One
          /\ idx \notin ResultIndices(task.result.results)

(***************************************************************************)
(* C24  Not-searchable candidates are skipped: a sub task scores a         *)
(* candidate only if its searchable flag was set when the sub task read    *)
(* it, so no candidate whose flag was clear at that moment is in a ranked  *)
(* result set, also when the query is its identifier or its title and a    *)
(* boost set holds its identifier.  (The flag is only ever set, at         *)
(* bz-entry-group.c line 1165: a flag that is clear now was clear when it  *)
(* was read.)                                                              *)
(***************************************************************************)
C24_NotSearchableSkipped ==
    /\ \A k \in Workers : sub[k].pc = "locked" => group[sub[k].g].searchable
    /\ \A k \in Workers : seen[k].g # 0 => group[seen[k].g].searchable
    /\ \A k \in Workers :
          (task.pc = "await" /\ "scores_out" \in DOMAIN sub[k]) =>
              \A idx \in EmittedBy(k) : group[task.snapshot[idx + 1]].searchable
    /\ RankedDone =>
          \A i \in 1..Len(task.result.results) :
              group[task.result.results[i].group].searchable
    /\ FinishedClean =>
          \A idx \in 0..(Len(issued.items) - 1) :
              ~IssuedSearchable(idx) => idx \notin ResultIndices(task.result.results)

\* the query is the identifier of a candidate that is not searchable and that
\* an active bias boosts; the result has another candidate and not this one
C24_Witness ==
    /\ FinishedClean
    /\ Len(task.result.results) > 0
    /\ \E idx \in 0..(Len(issued.items) - 1) :
          LET f == issued.records[issued.items[idx + 1]]
          IN  /\ ~f.searchable
              /\ task.result.interpreted_query = f.id
              /\ Boosting(IssuedInterpretation.active_biases, f.id) # {}
              /\ idx \notin ResultIndices(task.result.results)

(***************************************************************************)
(* The boost specification: the coordinator's loop over a bias table of    *)
(* every content (lines 505-536), then the loop body of a sub task for one *)
(* searchable candidate (lines 640-690).  probe holds the specifications   *)
(* the table was built from, the terms and the candidate's fields.         *)
(***************************************************************************)
\* the longest table of the specification
MaxRules == 3

Triple_ab == BiasSpec(Lit(S_b), NULL, <<S_ab, S_b>>, <<3, 0>>, NULL_FN)
Exp0_ab == BiasSpec(Lit(S_b), NULL, <<S_ab>>, NULL_FN, <<0, 1>>)

\* a rewrite of "b" to itself with a boost list and no function
Plain_ab == BiasSpec(Lit(S_b), S_b, <<S_ab>>, NULL_FN, NULL_FN)

RuleSpecs ==
    {Boost_ab, Triple_ab, Exp0_ab, Exp_b, Demote_a, Rewrite_a_to_b, BadRegex, Plain_ab}

RECURSIVE RuleListsOfLen(_)
RuleListsOfLen(n) ==
    IF n = 0 THEN {<< >>}
    ELSE {<<x>> \o l : x \in RuleSpecs, l \in RuleListsOfLen(n - 1)}

BoostTerms == {<<S_b>>, <<S_a>>, <<S_ab>>}

InitBoost ==
    /\ EngineIdle
    /\ probe \in {[pc |-> "table", specs |-> specs, terms |-> terms,
                   fields |-> SearchFields(bz_entry_group_add(FreshGroup, FirstEntry[g]))] :
                     specs \in UNION {RuleListsOfLen(n) : n \in 0..MaxRules},
                     terms \in BoostTerms, g \in {1, 3}}

\* lines 501-536, over the table bz_search_engine_set_biases builds from the source;
\* queries[i] is query_utf8 after i iterations of the loop of line 508
ActiveSet ==
    /\ probe.pc = "table"
    /\ LET table == biases_changed(<< >>, 0, 0, Len(probe.specs), probe.specs)
           st    == BiasLoop(table, 1, [query_utf8 |-> g_strjoinv(probe.terms),
                                        active_biases |-> << >>])
       IN  probe' = [pc |-> "active", specs |-> probe.specs, terms |-> probe.terms,
                     fields |-> probe.fields, table |-> table,
                     query_utf8 |-> st.query_utf8,
                     active_biases |-> st.active_biases,
                     queries |-> [i \in 0..Len(table) |->
                                     BiasLoop(SubSeq(table, 1, i), 1,
                                              [query_utf8 |-> g_strjoinv(probe.terms),
                                               active_biases |-> << >>]).query_utf8]]
    /\ UNCHANGED engineVars

\* lines 640-699: running[j] is the score after j iterations of the loop of line
\* 668, emitted whether the candidate is appended to scores_out
CandidateScore ==
    /\ probe.pc = "active"
    /\ LET base == BaseScore(probe.query_utf8, probe.fields)
       IN  probe' = [pc |-> "scored", specs |-> probe.specs, terms |-> probe.terms,
                     fields |-> probe.fields, table |-> probe.table,
                     query_utf8 |-> probe.query_utf8,
                     active_biases |-> probe.active_biases,
                     queries |-> probe.queries,
                     base |-> base,
                     running |-> [j \in 0..Len(probe.active_biases) |->
                                     ApplyBiases(SubSeq(probe.active_biases, 1, j), 1,
                                                 probe.fields.id, base)],
                     score |-> FinalScore(probe.query_utf8, probe.fields,
                                          probe.active_biases),
                     emitted |-> ClearsThreshold(FinalScore(probe.query_utf8,
                                                            probe.fields,
                                                            probe.active_biases))]
    /\ UNCHANGED engineVars

NextBoost ==
    \/ ActiveSet
    \/ CandidateScore

SpecBoost == InitBoost /\ [][NextBoost]_vars

(***************************************************************************)
(* C25  Bias order and replacement: the active set holds the rules of the  *)
(* table that matched, in table order; the rules whose boost set holds the *)
(* candidate's identifier are applied in that order, each replacing the    *)
(* running score by slope * score + intercept or by factor ^ score +       *)
(* intercept, the others leaving it; so for two linear rules A before B    *)
(* the final score is B(A(base)).                                          *)
(***************************************************************************)
\* active is table with some entries left out
IsSubsequence(active, table) ==
    \E f \in [1..Len(active) -> 1..Len(table)] :
        /\ \A i \in 1..Len(active) : active[i] = table[f[i]]
        /\ \A i, j \in 1..Len(active) : i < j => f[i] < f[j]

Boosts(data, id) == data.boost # NULL_TABLE /\ id \in data.boost

\* slope * x + intercept
LinearOf(slope, y_intercept, x) == DAdd(DMulRat(x, slope, 1), Whole(y_intercept))

\* factor ^ x + intercept for the factors 0 and 1 and x >= 0
PowerOf(factor, y_intercept, x) ==
    IF factor = 1 \/ x = Zero THEN Whole(1 + y_intercept) ELSE Whole(y_intercept)

Replaced(data, x) ==
    IF data.boost_kind = "LINEAR" THEN LinearOf(data.slope, data.y_intercept, x)
    ELSE PowerOf(data.slope, data.y_intercept, x)

C25_BiasOrder ==
    /\ probe.pc \in {"active", "scored"} =>
          /\ IsSubsequence(probe.active_biases, probe.table)
          /\ \A i \in 1..Len(probe.active_biases) : ~probe.active_biases[i].invalid
    /\ probe.pc = "scored" =>
          /\ probe.running[0] = probe.base
          /\ probe.score = probe.running[Len(probe.active_biases)]
          /\ \A j \in 1..Len(probe.active_biases) :
                probe.running[j] =
                    IF Boosts(probe.active_biases[j], probe.fields.id)
                    THEN Replaced(probe.active_biases[j], probe.running[j - 1])
                    ELSE probe.running[j - 1]
          /\ \A A, B \in {x \in RuleSpecs : x.linear # NULL_FN} :
                ( /\ probe.specs = <<A, B>>
                  /\ probe.active_biases = <<BuildBias(A), BuildBias(B)>>
                  /\ \A x \in {A, B} : Boosts(BuildBias(x), probe.fields.id) )
                => probe.score =
                       LinearOf(B.linear[1], B.linear[2],
                                LinearOf(A.linear[1], A.linear[2], probe.base))

\* A = (2, 1) before B = (3, 0) on a base of 2.5: the score is 3 * (2 * 2.5 + 1)
\* = 18, neither 2 * (3 * 2.5) + 1 = 16 nor 2 * 3 * 2.5 = 15
C25_Witness ==
    /\ probe.pc = "scored"
    /\ probe.specs = <<Boost_ab, Triple_ab>>
    /\ probe.fields.id = S_ab
    /\ Len(probe.active_biases) = 2
    /\ probe.base = DMulRat(Whole(5), 1, 2)
    /\ probe.score = Whole(18)
    /\ LinearOf(2, 1, LinearOf(3, 0, probe.base)) = Whole(16)

(***************************************************************************)
(* The shard specification: the coordinator's division of a snapshot of    *)
(* every length among the sub tasks (lines 502-503 and 539-563) and the    *)
(* indices each sub task reads (lines 626-634), for every processor count. *)
(* probe holds the sub tasks and the <<sub task, index>> pairs read.       *)
(***************************************************************************)
\* the longest snapshot of the specification
MaxShardLen == 10
ShardProcessors == 1..(MaxProcessors + 2)

InitShard ==
    /\ EngineIdle
    /\ probe \in {[pc |-> "spawn", len |-> len, processors |-> p] :
                     len \in 1..MaxShardLen, p \in ShardProcessors}

\* lines 502-503 and 539-563
ShardSpawn ==
    /\ probe.pc = "spawn"
    /\ LET n == NSubTasks(probe.len, probe.processors)
       IN  probe' = [pc |-> "work", len |-> probe.len, processors |-> probe.processors,
                     n_sub_tasks |-> n,
                     work |-> [k \in 1..n |->
                                  [work_offset |-> WorkOffset(k - 1, probe.len, n),
                                   work_length |-> WorkLength(k - 1, probe.len, n),
                                   i |-> 0]],
                     reads |-> {}]
    /\ UNCHANGED engineVars

\* lines 626-634: one iteration of sub task k reads index work_offset + i
ShardRead(k) ==
    /\ probe.pc = "work"
    /\ k \in 1..probe.n_sub_tasks
    /\ probe.work[k].i < probe.work[k].work_length
    /\ probe' = [probe EXCEPT !.work[k].i = @ + 1,
                              !.reads = @ \cup {<<k, probe.work[k].work_offset
                                                      + probe.work[k].i>>}]
    /\ UNCHANGED engineVars

NextShard ==
    \/ ShardSpawn
    \/ \E k \in 1..(MaxProcessors + 2) : ShardRead(k)

SpecShard == InitShard /\ [][NextShard]_vars

(***************************************************************************)
(* C26  Shard partition: for a snapshot of n >= 1 candidates and p >= 1    *)
(* processors there are k = max(1, min(n / quantum, p)) sub tasks; sub     *)
(* task i starts at i * (n / k), every one but the last has n / k          *)
(* candidates and the last n / k + n mod k; the ranges follow each other   *)
(* without gap or overlap from 0 to n; no sub task reads an index >= n,    *)
(* no index is read twice, and when all are done every index was read by   *)
(* exactly one.                                                            *)
(***************************************************************************)
Max2(a, b) == IF a >= b THEN a ELSE b
Min2(a, b) == IF a <= b THEN a ELSE b

InRange(w, idx) == idx >= w.work_offset /\ idx < w.work_offset + w.work_length

ReadersOf(idx) == {k \in 1..probe.n_sub_tasks : <<k, idx>> \in probe.reads}

AllRead == \A k \in 1..probe.n_sub_tasks : probe.work[k].i = probe.work[k].work_length

C26_ShardPartition ==
    probe.pc = "work" =>
        LET n == probe.len
            k == probe.n_sub_tasks
            w == probe.work
        IN  /\ k = Max2(1, Min2(n \div ShardQuantum, probe.processors))
            /\ \A i \in 1..k : w[i].work_offset = (i - 1) * (n \div k)
            /\ \A i \in 1..(k - 1) : w[i].work_length = n \div k
            /\ w[k].work_length = (n \div k) + (n % k)
            /\ w[1].work_offset = 0
            /\ \A i \in 1..(k - 1) :
                  w[i + 1].work_offset = w[i].work_offset + w[i].work_length
            /\ w[k].work_offset + w[k].work_length = n
            /\ \A idx \in 0..(n - 1) :
                  Cardinality({i \in 1..k : InRange(w[i], idx)}) = 1
            /\ \A r \in probe.reads : r[2] \in 0..(n - 1) /\ InRange(w[r[1]], r[2])
            /\ \A idx \in 0..(n - 1) : Cardinality(ReadersOf(idx)) <= 1
            /\ AllRead => \A idx \in 0..(n - 1) : Cardinality(ReadersOf(idx)) = 1

\* seven candidates on three processors: two sub tasks of two and a last one of
\* three, all done
C26_Witness ==
    /\ probe.pc = "work"
    /\ probe.len = 7
    /\ probe.n_sub_tasks = 3
    /\ probe.work[3].work_length = 3
    /\ AllRead
    /\ Cardinality(probe.reads) = 7

(***************************************************************************)
(* C27  Tie-break by snapshot order: in every ranked result set two        *)
(* entries with exactly equal scores appear in increasing order of their   *)
(* original snapshot index.                                                *)
(***************************************************************************)
C27_TieBreak ==
    RankedDone =>
        \A i, j \in 1..Len(task.result.results) :
            (i < j /\ task.result.results[i].score = task.result.results[j].score) =>
                task.result.results[i].original_index <
                    task.result.results[j].original_index

(***************************************************************************)
(* The fields specification: lines 640-666 of query_sub_task_fiber for a   *)
(* searchable candidate with every combination of identifier, title,       *)
(* developer, description and search tokens, NULL included.                *)
(***************************************************************************)
S_Abb == <<"A", "b", "b">>
S_bab_ab == <<"b", "a", "b", " ", "a", "b">>

FieldValues == {NULL, S_a, S_ab, S_Abb, S_a_b, S_bab_ab}
FieldQueries == {S_a, S_ab, <<"a", "b", "b">>, S_a_b}
FieldNames == {"title", "developer", "description", "search_tokens"}

InitFields ==
    /\ EngineIdle
    /\ probe \in {[pc |-> "call", query |-> q,
                   fields |-> [id |-> id, title |-> t, developer |-> d,
                               description |-> e, search_tokens |-> k,
                               searchable |-> TRUE]] :
                     q \in FieldQueries, id \in {NULL, S_ab},
                     t \in FieldValues, d \in FieldValues, e \in FieldValues,
                     k \in FieldValues}

\* lines 640-666: the score before the biases, and the fields test_strings ran on
BaseScoreCall ==
    /\ probe.pc = "call"
    /\ probe' = [pc |-> "ret", query |-> probe.query, fields |-> probe.fields,
                 base |-> BaseScore(probe.query, probe.fields),
                 evaluated |-> IF IsExactMatch(probe.query, probe.fields.id,
                                               probe.fields.title)
                               THEN {}
                               ELSE {n \in FieldNames : probe.fields[n] # NULL}]
    /\ UNCHANGED engineVars

NextFields == BaseScoreCall

SpecFields == InitFields /\ [][NextFields]_vars

(***************************************************************************)
(* C28  Weighted field sum: for a searchable candidate that is no exact    *)
(* id/title match the score before the biases is 2.0 * S(title, 2) + 1.0 * *)
(* S(developer, 2) + 1.0 * S(description, 3) + 1.5 * S(search tokens,      *)
(* unrestricted), S(field, m) being test_strings with the minimum accepted *)
(* token length m, and 0 for a NULL field; for an exact match the score is *)
(* G_MAXINT and test_strings runs on no field.                             *)
(***************************************************************************)
\* no minimum length
Unrestricted == 0 - 1

FieldScore(query, field, m) ==
    IF field = NULL THEN Zero ELSE test_strings(query, field, m)

Twice(x) == DAdd(x, x)
OneAndAHalf(x) == DAdd(x, DMulRat(x, 1, 2))

C28_WeightedSum ==
    probe.pc = "ret" =>
        LET q == probe.query
            f == probe.fields
        IN  IF (f.id # NULL /\ q = f.id) \/ (f.title # NULL /\ strcasecmp_eq(q, f.title))
            THEN probe.base = G_MAXINT_SCORE /\ probe.evaluated = {}
            ELSE /\ probe.base =
                        DAdd(DAdd(DAdd(Twice(FieldScore(q, f.title, 2)),
                                       FieldScore(q, f.developer, 2)),
                                  FieldScore(q, f.description, 3)),
                             OneAndAHalf(FieldScore(q, f.search_tokens, Unrestricted)))
                 /\ probe.evaluated = {n \in FieldNames : f[n] # NULL}

\* the query "ab" on the title "Abb" (4/3), no developer, the description
\* "bab ab" (4/3: "ab" is too short for it to count) and the search tokens
\* "bab ab" (4/3 + 2): 2 * 4/3 + 0 + 4/3 + 1.5 * 10/3 = 9
C28_Witness ==
    /\ probe.pc = "ret"
    /\ probe.query = S_ab
    /\ probe.fields.id = NULL
    /\ probe.fields.title = S_Abb
    /\ probe.fields.developer = NULL
    /\ probe.fields.description = S_bab_ab
    /\ probe.fields.search_tokens = S_bab_ab
    /\ probe.evaluated = {"title", "description", "search_tokens"}
    /\ probe.base = Whole(9)

(***************************************************************************)
(* The scoring specification: the loop body of query_sub_task_fiber        *)
(* (lines 640-699) applied once to a searchable candidate without an       *)
(* identifier whose title, developer, description and search tokens are    *)
(* all the string `against`, with no active bias.                          *)
(***************************************************************************)
RECURSIVE StringsOfLen(_)
StringsOfLen(n) ==
    IF n = 0 THEN {<< >>}
    ELSE {<<c>> \o s : c \in Alphabet, s \in StringsOfLen(n - 1)}

StringsUpTo(n) == UNION {StringsOfLen(k) : k \in 0..n}

ProbeFields(against) ==
    [id |-> NULL, title |-> against, developer |-> against,
     description |-> against, search_tokens |-> against, searchable |-> TRUE]

InitScore ==
    /\ EngineIdle
    /\ \E i \in 0..MaxPairLen :
           \E j \in 0..(MaxPairLen - i) :
               probe \in {[pc |-> "call", query |-> q, against |-> a] :
                             q \in StringsOfLen(i), a \in StringsOfLen(j)}

\* the accept_min_size values query_sub_task_fiber passes, lines 660-663
MinSizes == {2, 3, 0 - 1}

\* accept_min_size values around 0: negative, zero and positive ones
SizeBounds == (0 - 1)..3

ScoreCandidate ==
    /\ probe.pc = "call"
    /\ LET f == ProbeFields(probe.against)
           score == FinalScore(probe.query, f, << >>)
           qts == UTF8_FOREACH_TOKEN_FORWARDS(probe.query)
           ats == UTF8_FOREACH_TOKEN_FORWARDS(probe.against)
       IN  probe' = [pc |-> "ret", query |-> probe.query, against |-> probe.against,
                     field |-> [m \in MinSizes |->
                                   EVALUATE_STRING(probe.query, probe.against, m)],
                     score |-> score,
                     emitted |-> ClearsThreshold(score),
                     query_tokens |-> qts,
                     against_tokens |-> ats,
                     match |-> [j \in 1..Len(qts), k \in 1..Len(ats) |->
                                   TokenMatch(probe.query, qts[j], probe.against, ats[k])],
                     compared |-> [j \in 1..Len(qts), k \in 1..Len(ats) |->
                                      FarthestCompared(probe.query, qts[j], probe.against,
                                                       ats[k], ats[k].start, 0, 0)],
                     bounded |-> [m \in SizeBounds |->
                                     test_strings(probe.query, probe.against, m)],
                     skipped |-> [m \in SizeBounds |->
                                     {k \in 1..Len(ats) : SkippedAsShort(ats[k], m)}]]
    /\ UNCHANGED engineVars

NextScore == ScoreCandidate

SpecScore == InitScore /\ [][NextScore]_vars

(***************************************************************************)
(* Words and containment, stated directly (not as the code computes them). *)
(***************************************************************************)
\* the maximal runs of code points other than U+0020, as <<first, last>>
Words(s) ==
    {w \in (1..Len(s)) \X (1..Len(s)) :
        /\ w[1] <= w[2]
        /\ \A i \in w[1]..w[2] : s[i] # " "
        /\ (w[1] = 1 \/ s[w[1] - 1] = " ")
        /\ (w[2] = Len(s) \/ s[w[2] + 1] = " ")}

WordLen(w) == w[2] - w[1] + 1

\* word qw of q occurs in word fw of f, letter case ignored
OccursIn(q, qw, f, fw) ==
    \E o \in 0..(WordLen(fw) - WordLen(qw)) :
        \A k \in 0..(WordLen(qw) - 1) :
            g_unichar_tolower(q[qw[1] + k]) = g_unichar_tolower(f[fw[1] + o + k])

Eligible(fw, m) == m <= 0 \/ WordLen(fw) >= m

HasMatch(q, qw, f, m) ==
    \E fw \in Words(f) : Eligible(fw, m) /\ OccursIn(q, qw, f, fw)

SomeWordUnmatched(q, f, m) == \E qw \in Words(q) : ~HasMatch(q, qw, f, m)

(***************************************************************************)
(* C7  Conjunctive token semantics: test_strings is exactly 0 whenever     *)
(* some whitespace-separated token of the query occurs in no eligible      *)
(* token of the field, whatever earlier tokens had accumulated; and a      *)
(* candidate all of whose four fields score 0 this way, that is no exact   *)
(* id/title match and has no boost, is not emitted.                        *)
(***************************************************************************)
C7_Conjunctive ==
    probe.pc = "ret" =>
        /\ \A m \in MinSizes :
               SomeWordUnmatched(probe.query, probe.against, m) => probe.field[m] = Zero
        /\ ( /\ \A m \in MinSizes : SomeWordUnmatched(probe.query, probe.against, m)
             /\ ~IsExactMatch(probe.query, NULL, probe.against) )
           => (probe.score = Zero /\ ~probe.emitted)

\* a later query token fails after an earlier one had matched a token of the
\* search tokens (1.5 * 1/1 would have cleared the threshold), and the
\* candidate is dropped
C7_Witness ==
    /\ probe.pc = "ret"
    /\ \E w1, w2 \in Words(probe.query) :
           /\ w1[2] < w2[1]
           /\ HasMatch(probe.query, w1, probe.against, 0 - 1)
           /\ WordLen(w1) = 1
           /\ \A m \in MinSizes : ~HasMatch(probe.query, w2, probe.against, m)
    /\ ~probe.emitted

(***************************************************************************)
(* C29  Score accumulation: when every token of the query matches at least *)
(* one eligible token of the field, test_strings returns the sum, over     *)
(* every token q of the query and every eligible token f of the field that *)
(* q matches, of len(q)^2 / len(f) in code points; a field that is empty   *)
(* or has no token scores 0.                                               *)
(***************************************************************************)
\* the pairs <<word of q, eligible word of f>> in which the first occurs in the second
MatchingPairs(q, f, m) ==
    {p \in Words(q) \X Words(f) : Eligible(p[2], m) /\ OccursIn(q, p[1], f, p[2])}

RECURSIVE SumOfQuotients(_)
SumOfQuotients(pairs) ==
    IF pairs = {} THEN Zero
    ELSE LET p == CHOOSE x \in pairs : TRUE
         IN  DAdd(DQuot(WordLen(p[1]) * WordLen(p[1]), WordLen(p[2])),
                  SumOfQuotients(pairs \ {p}))

C29_Accumulation ==
    probe.pc = "ret" =>
        \A m \in MinSizes :
            /\ ~SomeWordUnmatched(probe.query, probe.against, m) =>
                   probe.field[m] =
                       SumOfQuotients(MatchingPairs(probe.query, probe.against, m))
            /\ Words(probe.against) = {} => probe.field[m] = Zero

(***************************************************************************)
(* C30  Token match predicate: the tokens test_strings works on are the    *)
(* words of the two strings; a token of the field matches a token of the   *)
(* query exactly when the query token, letter case ignored, occurs in the  *)
(* field token as a contiguous run of code points, at its start, in the    *)
(* middle or at its end; no code point after the end of the field token is *)
(* compared, and a query token longer than the field token never matches.  *)
(***************************************************************************)
\* the tokens of the loop that are words: <<first, last>> of those of length > 0
WordsOfTokens(tokens) ==
    {<<tokens[i].start, tokens[i].end - 1>> :
        i \in {n \in 1..Len(tokens) : tokens[n].len > 0}}

IsWord(t) == t.len > 0

C30_TokenMatch ==
    probe.pc = "ret" =>
        LET q   == probe.query
            f   == probe.against
            qts == probe.query_tokens
            ats == probe.against_tokens
        IN  /\ WordsOfTokens(qts) = Words(q)
            /\ WordsOfTokens(ats) = Words(f)
            /\ \A j \in 1..Len(qts), k \in 1..Len(ats) :
                  (IsWord(qts[j]) /\ IsWord(ats[k])) =>
                      LET qw == <<qts[j].start, qts[j].end - 1>>
                          fw == <<ats[k].start, ats[k].end - 1>>
                      IN  /\ qts[j].len = WordLen(qw)
                          /\ ats[k].len = WordLen(fw)
                          /\ probe.match[j, k] <=> OccursIn(q, qw, f, fw)
                          /\ probe.compared[j, k] <= fw[2]
                          /\ WordLen(qw) > WordLen(fw) => ~probe.match[j, k]

\* the query token "a" is not in the field token "b" and matches the field
\* token "bA" at its end, where the last code point compared is the token's last
C30_Witness ==
    /\ probe.pc = "ret"
    /\ probe.query = <<"a">>
    /\ probe.against = <<"b", " ", "b", "A">>
    /\ ~probe.match[1, 1]
    /\ probe.match[1, 2]
    /\ probe.compared[1, 1] = 1
    /\ probe.compared[1, 2] = 4

(***************************************************************************)
(* C31  Minimum token length: with a positive bound test_strings skips     *)
(* exactly the field tokens with fewer code points than the bound; a       *)
(* skipped token adds nothing to the score, so a query token that occurs   *)
(* only in skipped tokens makes the field score 0; with a bound of zero or *)
(* below no field token is skipped.  The bounds the sub task passes are 2  *)
(* for title and developer, 3 for the description and -1 for the search    *)
(* tokens.                                                                 *)
(***************************************************************************)
\* the words of f whose token the loop skipped under bound m
SkippedWords(m) ==
    {<<probe.against_tokens[k].start, probe.against_tokens[k].end - 1>> :
        k \in {n \in probe.skipped[m] : IsWord(probe.against_tokens[n])}}

\* the query does not end in a separator
EndsInWord(q) == Len(q) = 0 \/ q[Len(q)] # " "

C31_MinTokenLength ==
    probe.pc = "ret" =>
        LET q == probe.query
            f == probe.against
        IN  /\ \A m \in MinSizes : probe.field[m] = probe.bounded[m]
            /\ \A m \in SizeBounds :
                  /\ m > 0 => SkippedWords(m) = {fw \in Words(f) : WordLen(fw) < m}
                  /\ m <= 0 => probe.skipped[m] = {}
                  /\ ( /\ m > 0
                       /\ \E qw \in Words(q) :
                             \A fw \in Words(f) :
                                 OccursIn(q, qw, f, fw) => WordLen(fw) < m )
                     => probe.bounded[m] = Zero
                  /\ (EndsInWord(q) /\ ~SomeWordUnmatched(q, f, m))
                     => probe.bounded[m] = SumOfQuotients(MatchingPairs(q, f, m))

\* the query "a" occurs in both tokens of the field "a ab": under the bound 2
\* only "ab" counts (1/2), under the bound 3 neither does (0), and without a
\* bound both do (1/1 + 1/2)
C31_Witness ==
    /\ probe.pc = "ret"
    /\ probe.query = S_a
    /\ probe.against = <<"a", " ", "a", "b">>
    /\ probe.skipped[2] = {1}
    /\ probe.skipped[3] = {1, 2}
    /\ probe.skipped[0] = {}
    /\ probe.bounded[2] = DQuot(1, 2)
    /\ probe.bounded[3] = Zero
    /\ probe.bounded[0 - 1] = DAdd(Whole(1), DQuot(1, 2))
    /\ probe.bounded[0] = probe.bounded[0 - 1]
    /\ probe.bounded[1] = probe.bounded[0 - 1]

(***************************************************************************)
(* The table maintenance specification: an engine and its bias source.     *)
(* probe holds self->biases (NULL_OBJ or the source), the source's items,  *)
(* the engine's biases_mirror and the number of calls so far.              *)
(* The source is replaced by bz_search_engine_set_biases and edited in     *)
(* place, each edit followed by its items-changed notification.            *)
(***************************************************************************)
\* the calls of one behaviour
MaxChanges == 3
\* the longest source
MaxTableLen == 4

\* the lists a new source may hold
NewSources == {InitialBiasItems[b] : b \in BiasObjs} \cup {<< >>, <<BadRegex, Exp_b>>}

\* what one edit puts into the source: no, one or two specifications
EditSpecs == {BadRegex, Boost_ab, Rewrite_a_to_b}
EditLists == {<< >>} \cup {<<x>> : x \in EditSpecs} \cup {<<x, Demote_a>> : x \in EditSpecs}

InitRebuild ==
    /\ EngineIdle
    /\ probe = [pc |-> "new", biases |-> NULL_OBJ, items |-> << >>, mirror |-> << >>, changes |-> 0]

\* bz_search_engine_set_biases (self, biases), lines 258-275, biases not NULL
RebuildSetBiases(items) ==
    /\ probe.changes < MaxChanges
    /\ probe' = [pc |-> "set", biases |-> "B1", items |-> items,
                 mirror |-> biases_changed(<< >>, 0, 0, Len(items), items),
                 changes |-> probe.changes + 1]
    /\ UNCHANGED engineVars

\* bz_search_engine_set_biases (self, NULL), lines 258-263
RebuildClearBiases ==
    /\ probe.changes < MaxChanges
    /\ probe' = [pc |-> "cleared", biases |-> NULL_OBJ, items |-> << >>, mirror |-> << >>,
                 changes |-> probe.changes + 1]
    /\ UNCHANGED engineVars

\* the source replaces `removed` items at `position` by `new` and emits
\* items-changed (position, removed, Len(new)); biases_changed is connected
RebuildItemsChanged(position, removed, new) ==
    /\ probe.changes < MaxChanges
    /\ probe.biases # NULL_OBJ
    /\ position + removed <= Len(probe.items)
    /\ removed + Len(new) > 0
    /\ Len(probe.items) - removed + Len(new) <= MaxTableLen
    /\ LET items == Splice(probe.items, position, removed, new)
       IN  probe' = [pc |-> "changed", biases |-> probe.biases, items |-> items,
                     mirror |-> biases_changed(probe.mirror, position, removed,
                                               Len(new), items),
                     changes |-> probe.changes + 1,
                     position |-> position, removed |-> removed, added |-> Len(new)]
    /\ UNCHANGED engineVars

NextRebuild ==
    \/ \E items \in NewSources : RebuildSetBiases(items)
    \/ RebuildClearBiases
    \/ \E position \in 0..MaxTableLen, removed \in 0..2, new \in EditLists :
          RebuildItemsChanged(position, removed, new)

SpecRebuild == InitRebuild /\ [][NextRebuild]_vars

(***************************************************************************)
(* C32  Incremental update equals full rebuild: after any sequence of      *)
(* bz_search_engine_set_biases calls and items-changed notifications that  *)
(* describe the edits of the engine's source, the bias table equals, entry *)
(* by entry, the table built from scratch from the source's current items; *)
(* without a source the table is empty.                                    *)
(***************************************************************************)
\* rebuild (specs): the entry of every specification, in the order of the list
rebuild(specs) == [i \in 1..Len(specs) |-> BuildBias(specs[i])]

C32_IncrementalIsRebuild ==
    /\ probe.biases = NULL_OBJ => probe.mirror = << >>
    /\ probe.biases # NULL_OBJ =>
          /\ Len(probe.mirror) = Len(probe.items)
          /\ \A i \in 1..Len(probe.items) : probe.mirror[i] = rebuild(probe.items)[i]
          /\ probe.mirror = biases_changed(<< >>, 0, 0, Len(probe.items), probe.items)

\* the third call replaced two items in the middle of the source by two others,
\* one of them stored as a placeholder, between entries that stayed
C32_Witness ==
    /\ probe.pc = "changed"
    /\ probe.changes = 3
    /\ probe.position = 1 /\ probe.removed = 2 /\ probe.added = 2
    /\ Len(probe.items) = 4
    /\ probe.mirror[2].invalid /\ ~probe.mirror[3].invalid
    /\ ~probe.mirror[1].invalid /\ ~probe.mirror[4].invalid
    /\ probe.mirror[4] = BuildBias(Boost_ab)

(***************************************************************************)
(* C33  Interpreted query: the interpreted query of a ranked result is the *)
(* string every sub task of the query scored against; it is the terms      *)
(* joined with single spaces when no valid rule with a rewrite matched,    *)
(* and the string the matching rewrites left otherwise; a matching rule    *)
(* without a rewrite joins the active set and leaves the string as it is.  *)
(***************************************************************************)
\* the query after the rewrites of the valid rules of the table that match, in turn
RECURSIVE RewrittenBy(_, _)
RewrittenBy(table, q) ==
    IF Len(table) = 0 THEN q
    ELSE LET b == Head(table)
         IN  RewrittenBy(Tail(table),
                 IF ~b.invalid /\ b.convert_to # NULL /\ g_regex_match(b.regex, q)
                 THEN g_regex_replace(b.regex, q, b.convert_to)
                 ELSE q)

\* no valid rule with a rewrite matches q
NoRewriteMatches(table, q) ==
    \A i \in 1..Len(table) :
        ~(~table[i].invalid /\ table[i].convert_to # NULL
                            /\ g_regex_match(table[i].regex, q))

C33_InterpretedQuery ==
    /\ [][ (task.pc = "await" /\ task'.pc = "done") =>
              \A k \in 1..task.n_sub_tasks :
                  sub[k].query_utf8 = task'.result.interpreted_query ]_vars
    /\ [][ (task.pc = "fiber" /\ task'.pc = "fiber" /\ task'.i = task.i + 1) =>
              LET b   == biases_mirror[task.i + 1]
                  hit == ~b.invalid /\ g_regex_match(b.regex, task.query_utf8)
              IN  /\ hit => task'.active_biases = Append(task.active_biases, b)
                  /\ ~hit => /\ task'.active_biases = task.active_biases
                             /\ task'.query_utf8 = task.query_utf8
                  /\ (hit /\ b.convert_to = NULL) => task'.query_utf8 = task.query_utf8
                  /\ (hit /\ b.convert_to # NULL) =>
                         task'.query_utf8 =
                             g_regex_replace(b.regex, task.query_utf8, b.convert_to) ]_vars
    /\ [](task.pc = "await" =>
              \A k \in 1..task.n_sub_tasks : sub[k].query_utf8 = task.query_utf8)
    /\ [](FinishedClean =>
              LET joined == g_strjoinv(task.terms)
              IN  /\ task.result.interpreted_query = RewrittenBy(issued.table, joined)
                  /\ NoRewriteMatches(issued.table, joined) =>
                         task.result.interpreted_query = joined)

\* the query "a b" was rewritten to "b b" by the first rule of B2, the third rule,
\* which has no rewrite, matched "b b", and the result reports "b b"
C33_Witness ==
    /\ FinishedClean
    /\ task.terms = <<S_a, S_b>>
    /\ Len(issued.table) = 3
    /\ ~NoRewriteMatches(issued.table, g_strjoinv(task.terms))
    /\ task.result.interpreted_query = <<"b", " ", "b">>
    /\ task.result.n_results > 0

(***************************************************************************)
(* C34  Boost list without transform: an active rule that was built from a *)
(* specification with a rewrite and a non-empty boost id list but neither  *)
(* a linear nor an exponential function leaves the running score of every  *)
(* candidate as it was, the candidates of its boost list included.         *)
(***************************************************************************)
\* the specifications of the table that declare no function and gave the entry
WithoutTransform(data) ==
    {spec \in RuleSpecs :
        /\ spec.linear = NULL_FN /\ spec.exponential = NULL_FN
        /\ spec.convert_to # NULL
        /\ spec.boost_appids # NULL_LIST /\ Len(spec.boost_appids) > 0
        /\ BuildBias(spec) = data}

C34_NoTransform ==
    probe.pc = "scored" =>
        \A j \in 1..Len(probe.active_biases) :
            WithoutTransform(probe.active_biases[j]) # {} =>
                /\ ~probe.active_biases[j].invalid
                /\ probe.running[j] = probe.running[j - 1]

(***************************************************************************)
(* C35  Exact match is always returned: a searchable candidate whose       *)
(* identifier equals the query as rewritten is appended to the scores of   *)
(* its sub task, and so is in the result, for every bias table, also when  *)
(* an active rule has the candidate in its boost set.                      *)
(***************************************************************************)
C35_ExactMatchReturned ==
    ( /\ probe.pc = "scored"
      /\ probe.fields.searchable
      /\ probe.fields.id # NULL
      /\ probe.query_utf8 = probe.fields.id )
    => probe.emitted

(***************************************************************************)
(* C36  Chained rewriting: the coordinator tests the rules in table order  *)
(* against the query as it is at that point: rule k is active exactly when *)
(* it is valid and its pattern matches the query as rewritten by the       *)
(* matching rules before k; an earlier rewrite can so activate or          *)
(* deactivate a later rule; and the final query is the composition of the  *)
(* rewrites of the active rules in table order.                            *)
(***************************************************************************)
\* rule k of the table matched the query it was given
Hit(k) ==
    /\ ~probe.table[k].invalid
    /\ g_regex_match(probe.table[k].regex, probe.queries[k - 1])

\* the entries of the table at the positions of hits, in table order
RECURSIVE HitsUpTo(_)
HitsUpTo(k) ==
    IF k = 0 THEN << >>
    ELSE IF Hit(k) THEN Append(HitsUpTo(k - 1), probe.table[k]) ELSE HitsUpTo(k - 1)

C36_ChainedRewriting ==
    probe.pc \in {"active", "scored"} =>
        /\ probe.queries[0] = g_strjoinv(probe.terms)
        /\ \A k \in 1..Len(probe.table) :
              probe.queries[k] =
                  IF Hit(k) /\ probe.table[k].convert_to # NULL
                  THEN g_regex_replace(probe.table[k].regex, probe.queries[k - 1],
                                       probe.table[k].convert_to)
                  ELSE probe.queries[k - 1]
        /\ probe.active_biases = HitsUpTo(Len(probe.table))
        /\ probe.query_utf8 = probe.queries[Len(probe.table)]

\* the rewrite of "a" to "b" by the first rule keeps the second rule, whose
\* pattern "a" matches the query as typed, out of the active set, and brings in
\* the third, whose pattern "b" does not match the query as typed
C36_Witness ==
    /\ probe.pc = "active"
    /\ probe.terms = <<S_a>>
    /\ probe.specs = <<Rewrite_a_to_b, Demote_a, Boost_ab>>
    /\ probe.queries[0] = S_a /\ probe.queries[1] = S_b
    /\ g_regex_match(probe.table[2].regex, probe.queries[0]) /\ ~Hit(2)
    /\ ~g_regex_match(probe.table[3].regex, probe.queries[0]) /\ Hit(3)
    /\ probe.active_biases = <<probe.table[1], probe.table[3]>>
    /\ probe.query_utf8 = S_b

(***************************************************************************)
(* C37  Fast-path trigger: with a model that has items, a call of          *)
(* bz_search_engine_query with terms takes the unranked path exactly when  *)
(* the first term is the empty string, whatever the later terms are: every *)
(* candidate in model order, the interpreted query "", no task and no look *)
(* at the bias table; with any other first term it spawns the coordinator, *)
(* which starts from the joined terms and an empty active set.             *)
(***************************************************************************)
\* the result of the unranked path over the model's items
AllInModelOrder(items, result) ==
    /\ result.interpreted_query = << >>
    /\ result.n_results = Len(items)
    /\ Len(result.results) = Len(items)
    /\ \A i \in 1..Len(items) :
          /\ result.results[i].group = items[i]
          /\ result.results[i].original_index = i - 1
          /\ result.results[i].score = UNSET

Appended == {<<k, j>> \in Workers \X (1..Len(task.snapshot)) :
                k <= task.n_sub_tasks /\ j <= Len(sub[k].scores_out)}

C38_WellFormedResult ==
    /\ [][ (task.pc = "await" /\ task'.pc = "done") =>
              LET results == task'.result.results
              IN  /\ task'.result.n_results = Len(results)
                  /\ Len(results) = Cardinality(Appended)
                  /\ \A i \in 1..Len(results) :
                        /\ results[i].original_index \in 0..(Len(task.snapshot) - 1)
                        /\ results[i].group =
                               task.snapshot[results[i].original_index + 1]
                        /\ \E p \in Appended :
                              sub[p[1]].scores_out[p[2]] =
                                  [idx |-> results[i].original_index,
                                   val |-> results[i].score]
                  /\ \A i, j \in 1..Len(results) :
                        i # j => results[i].original_index # results[j].original_index
         ]_vars
    /\ [][ \A k \in Workers :
              (sub[k].pc = "locked" /\ sub'[k].pc = "loop") =>
                  /\ seen'[k].idx = sub[k].work_offset + sub[k].i
                  /\ seen'[k].g = task.snapshot[seen'[k].idx + 1]
                  /\ sub'[k].scores_out \in
                         {sub[k].scores_out,
                          Append(sub[k].scores_out,
                                 [idx |-> seen'[k].idx, val |-> seen'[k].score])} ]_vars
    /\ []((task.pc = "done" /\ issued.path = "ranked") =>
              /\ task.result.n_results = Len(task.result.results)
              /\ \A i \in 1..Len(task.result.results) :
                    /\ task.result.results[i].original_index
                           \in 0..(Len(issued.items) - 1)
                    /\ task.result.results[i].group =
                           issued.items[task.result.results[i].original_index + 1])

\* two sub tasks over three candidates: the result holds the candidates of the
\* indices 2 and 0, in that order, each with its own group
C38_Witness ==
    /\ task.pc = "done" /\ issued.path = "ranked"
    /\ num_processors = 2
    /\ Len(issued.items) = 3
    /\ task.result.n_results = 2
    /\ task.result.results[1].original_index = 2
    /\ task.result.results[2].original_index = 0
    /\ task.result.results[1].group = issued.items[3]
    /\ task.result.results[2].group = issued.items[1]
    /\ task.result.results[1].group # task.result.results[2].group

(***************************************************************************)
(* The entry group specification: one BzEntryGroup and the entries of its  *)
(* application (src/src/bz-entry-group.c).  probe holds the group: the     *)
(* fields of bz_entry_group_add, the string lists unique_ids and           *)
(* installed_versions and the four counters; the entries with their        *)
(* installed and holding state; the usefulness values the calls of         *)
(* bz_entry_group_add brought so far and the latest of these calls.        *)
(* An entry notifies the group once bz_entry_group_connect_living has      *)
(* connected it, and the application connects the entries it has added;    *)
(* a notification follows a change of the property.                        *)
(***************************************************************************)
\* the calls and notifications of one behaviour
MaxEvents == 4

\* the unique ids of the entries of one application
UniqueIds == {"u1", "u2", "u3"}

\* bz_flatpak_entry_is_installed_ref: the entries that describe an installed ref
InstalledRefs == {"u3"}

\* what bz_entry_calc_usefulness returns
Usefulness == 0..1

\* the installed version of an entry: a string of its own
VersionsOf(e) == {<<e, "1">>}

\* lines 949, 1045 and 1226: installed_version != NULL ? installed_version : ""
VersionString(installed_version) ==
    IF installed_version = NULL THEN << >> ELSE installed_version

\* the value gtk_string_list_find returns when the string is not in the list:
\* (guint) -1, the position of no item
G_MAXUINT == 0 - 1

RECURSIVE FindFrom(_, _, _)
FindFrom(list, string, i) ==
    IF i >= Len(list) THEN G_MAXUINT
    ELSE IF list[i + 1] = string THEN i
    ELSE FindFrom(list, string, i + 1)

gtk_string_list_find(list, string) == FindFrom(list, string, 0)

\* the two string lists when the entry's old position stays in them
AddKeepingOld(ids, versions, unique_id, installed_version, overwrite) ==
    IF overwrite
    THEN [unique_ids |-> Splice(ids, 0, 0, <<unique_id>>),
          installed_versions |->
              Splice(versions, 0, 0, <<VersionString(installed_version)>>)]
    ELSE IF gtk_string_list_find(ids, unique_id) = G_MAXUINT
    THEN [unique_ids |-> Append(ids, unique_id),
          installed_versions |-> Append(versions, VersionString(installed_version))]
    ELSE [unique_ids |-> ids, installed_versions |-> versions]

\* bz_entry_group_add, lines 939-949 and 1042-1046: the two string lists
AddToLists(ids, versions, unique_id, installed_version, overwrite) ==
    LET existing == gtk_string_list_find(ids, unique_id)
    IN  IF overwrite
        THEN LET ids1 == IF existing # G_MAXUINT
                         THEN Splice(ids, existing, 1, << >>) ELSE ids
                 versions1 == IF existing # G_MAXUINT
                              THEN Splice(versions, existing, 1, << >>) ELSE versions
             IN  [unique_ids |-> Splice(ids1, 0, 0, <<unique_id>>),
                  installed_versions |->
                      Splice(versions1, 0, 0, <<VersionString(installed_version)>>)]
        ELSE IF existing = G_MAXUINT
        THEN [unique_ids |-> Append(ids, unique_id),
              installed_versions |->
                  Append(versions, VersionString(installed_version))]
        ELSE [unique_ids |-> ids, installed_versions |-> versions]

\* installed_changed, lines 1218-1228: the version of the entry's position
SpliceVersion(ids, versions, unique_id, version) ==
    LET index == gtk_string_list_find(ids, unique_id)
    IN  IF index # G_MAXUINT
        THEN Splice(versions, index, 1, <<VersionString(version)>>)
        ELSE versions

\* the four counters of a group
Counters(g) ==
    [installable |-> g.installable, removable |-> g.removable,
     installable_available |-> g.installable_available,
     removable_available |-> g.removable_available]

\* bz_entry_group_add, lines 1100 and 1134-1161
CountAdded(c, existing, entry, is_installed_ref) ==
    IF existing # G_MAXUINT THEN c
    ELSE IF entry.installed
    THEN [c EXCEPT !.removable = @ + 1,
                   !.removable_available = IF ~entry.holding THEN @ + 1 ELSE @]
    ELSE IF ~is_installed_ref
    THEN [c EXCEPT !.installable = @ + 1,
                   !.installable_available = IF ~entry.holding THEN @ + 1 ELSE @]
    ELSE c

\* installed_changed, lines 1232-1266
CountInstalledChanged(c, entry, is_installed_ref) ==
    IF entry.installed
    THEN [c EXCEPT !.installable = @ - 1,
                   !.removable = @ + 1,
                   !.installable_available = IF ~entry.holding THEN @ - 1 ELSE @,
                   !.removable_available = IF ~entry.holding THEN @ + 1 ELSE @]
    ELSE [c EXCEPT !.removable = @ - 1,
                   !.installable = IF ~is_installed_ref THEN @ + 1 ELSE @,
                   !.removable_available = IF ~entry.holding THEN @ - 1 ELSE @,
                   !.installable_available =
                       IF ~entry.holding /\ ~is_installed_ref THEN @ + 1 ELSE @]

\* holding_changed, lines 1282-1295
CountHoldingChanged(c, entry) ==
    IF entry.holding
    THEN (IF entry.installed
          THEN [c EXCEPT !.removable_available = @ - 1]
          ELSE [c EXCEPT !.installable_available = @ - 1])
    ELSE (IF entry.installed
          THEN [c EXCEPT !.removable_available = @ + 1]
          ELSE [c EXCEPT !.installable_available = @ + 1])

\* the search fields of the entry with a unique id
FieldsOf(e, usefulness) ==
    [(CASE e = "u1" -> FirstEntry[1] [] e = "u2" -> SecondEntry[1]
        [] OTHER -> [FirstEntry[1] EXCEPT !.title = NULL, !.description = S_ab])
     EXCEPT !.usefulness = usefulness]

\* an entry nobody has read yet
UnknownEntry ==
    [added |-> FALSE, connected |-> FALSE, installed |-> FALSE, holding |-> FALSE,
     installed_version |-> NULL]

\* no call of bz_entry_group_add yet
NoCall == [e |-> NULL_OBJ]

\* the call's entry is at least as useful as every entry the calls before it brought
Qualifies(brought, usefulness) == \A u \in brought : u <= usefulness

\* bz_entry_group_init, lines 503-511, and g_object_new's zeroes
InitGroup ==
    /\ EngineIdle
    /\ probe = [pc |-> "new", fields |-> FreshGroup,
                call |-> NoCall, unique_ids |-> << >>, installed_versions |-> << >>,
                installable |-> 0, removable |-> 0,
                installable_available |-> 0, removable_available |-> 0,
                entries |-> [e \in UniqueIds |-> UnknownEntry],
                seen |-> {}, latest |-> NULL_OBJ, events |-> 0]

\* bz_entry_group_add (group, entry, ...), lines 858-1167; the application has
\* set the entry's installed state and version before (bz-application.c lines
\* 1811-1816), here an installed entry with its version and any other without;
\* an entry of an installed ref is installed when it is first read
GroupAdd(e, usefulness, installed, holding, version) ==
    /\ probe.events < MaxEvents
    /\ IF probe.entries[e].added
       THEN /\ installed = probe.entries[e].installed
            /\ holding = probe.entries[e].holding
            /\ version = probe.entries[e].installed_version
       ELSE /\ (e \in InstalledRefs => installed)
            /\ (installed <=> version # NULL)
    /\ LET entry == [probe.entries[e] EXCEPT !.added = TRUE, !.installed = installed,
                                            !.holding = holding,
                                            !.installed_version = version]
           rec == FieldsOf(e, usefulness)
           existing == gtk_string_list_find(probe.unique_ids, e)
           lists == AddToLists(probe.unique_ids, probe.installed_versions, e, version,
                              Overwrites(probe.fields, rec))
           c == CountAdded(Counters(probe), existing, entry, e \in InstalledRefs)
       IN  probe' = [probe EXCEPT
                        !.pc = "added",
                        !.fields = bz_entry_group_add(probe.fields, rec),
                        !.unique_ids = lists.unique_ids,
                        !.installed_versions = lists.installed_versions,
                        !.installable = c.installable,
                        !.removable = c.removable,
                        !.installable_available = c.installable_available,
                        !.removable_available = c.removable_available,
                        !.entries = [@ EXCEPT ![e] = entry],
                        !.seen = @ \cup {usefulness},
                        !.latest = IF Qualifies(probe.seen, usefulness) THEN e ELSE @,
                        !.call = [e |-> e, existing |-> existing],
                        !.events = @ + 1]
    /\ UNCHANGED engineVars

\* bz_entry_group_connect_living (group, entry), lines 1169-1184, for an entry
\* the group holds (bz-application.c lines 1473-1477)
GroupConnectLiving(e) ==
    /\ probe.entries[e].added
    /\ ~probe.entries[e].connected
    /\ probe' = [probe EXCEPT !.pc = "connected", !.entries[e].connected = TRUE]
    /\ UNCHANGED engineVars

\* a connected entry is installed or removed (bz-application.c lines 1333-1337
\* and 1366-1367) and notify::installed runs installed_changed, lines 1202-1271
GroupInstalledChanged(e, version) ==
    /\ probe.events < MaxEvents
    /\ probe.entries[e].connected
    /\ (probe.entries[e].installed <=> version = NULL)
    /\ LET entry == [probe.entries[e] EXCEPT !.installed = ~@,
                                            !.installed_version = version]
           c == CountInstalledChanged(Counters(probe), entry, e \in InstalledRefs)
       IN  probe' = [probe EXCEPT
                        !.pc = "installed_changed",
                        !.installed_versions =
                            SpliceVersion(probe.unique_ids, @, e, version),
                        !.installable = c.installable,
                        !.removable = c.removable,
                        !.installable_available = c.installable_available,
                        !.removable_available = c.removable_available,
                        !.entries = [@ EXCEPT ![e] = entry],
                        !.events = @ + 1]
    /\ UNCHANGED engineVars

\* a connected entry starts or stops holding and notify::holding runs
\* holding_changed, lines 1273-1299
GroupHoldingChanged(e) ==
    /\ probe.events < MaxEvents
    /\ probe.entries[e].connected
    /\ LET entry == [probe.entries[e] EXCEPT !.holding = ~@]
           c == CountHoldingChanged(Counters(probe), entry)
       IN  probe' = [probe EXCEPT
                        !.pc = "holding_changed",
                        !.installable_available = c.installable_available,
                        !.removable_available = c.removable_available,
                        !.entries = [@ EXCEPT ![e] = entry],
                        !.events = @ + 1]
    /\ UNCHANGED engineVars

NextGroup ==
    \/ \E e \in UniqueIds, usefulness \in Usefulness, installed \in BOOLEAN,
          holding \in BOOLEAN :
          \E version \in {NULL} \cup VersionsOf(e) :
             GroupAdd(e, usefulness, installed, holding, version)
    \/ \E e \in UniqueIds : GroupConnectLiving(e)
    \/ \E e \in UniqueIds :
          \E version \in {NULL} \cup VersionsOf(e) : GroupInstalledChanged(e, version)
    \/ \E e \in UniqueIds : GroupHoldingChanged(e)

SpecGroup == InitGroup /\ [][NextGroup]_vars

C40_CountersInRange ==
    /\ probe.installable >= 0
    /\ probe.removable >= 0
    /\ probe.installable_available >= 0
    /\ probe.removable_available >= 0
    /\ probe.installable_available <= probe.installable
    /\ probe.removable_available <= probe.removable

====
